---- MODULE Spec2Model ----
(***************************************************************************)
(* Kensho: the per-session vector store (kensho/vector_store.py) and the   *)
(* callers that reach it: the API server's uploads, the UI's and the       *)
(* test's searches, the agent's tool retrieve_session_docs                 *)
(* (kensho/tools.py); the chunker (kensho/document_processor.py) and the   *)
(* assistant's helpers (kensho/ai_assistant.py) that work on its chunks.   *)
(* A session's storage is the three artifacts                              *)
(* vector_index.faiss, chunk_metadata.json and embedding_info.json, plus   *)
(* the raw chunk list chunks.json that rebuild_index reads.                *)
(*                                                                         *)
(* Strings are sequences of tokens ("/" and "_vectors" are tokens of their *)
(* own), vectors are integer vectors whose unit length is UnitLen, so that *)
(* an inner product of normalized vectors is an integer.                   *)
(***************************************************************************)
EXTENDS Integers, Sequences, FiniteSets, TLC

VARIABLES
    cfg,      \* the store object's fields set by __init__: gemini_api_key, dimensions
    store,    \* session id -> the session's files on disk
    last,     \* the call that has just returned: operation, arguments, return
              \* value; NoCall once the caller has taken it
    hist,     \* per session, the history the claims speak of: the latest build,
              \* rebuild or delete call and whether a delete has not been followed
              \* by a successful build yet
    wpc,      \* writer process (build or rebuild in progress): position in its code
    rpc,      \* reader process (load_index in progress): position and what it has read
    sessions  \* the API server's dict sessions: session id -> its documents and
              \* its vector_store_path

vars == <<cfg, store, last, hist, wpc, rpc, sessions>>

(***************************************************************************)
(* Bounds of the model.                                                    *)
(***************************************************************************)
MaxChunks == 2     \* longest chunk list handed to build_index
MaxTopK == 3       \* largest top_k asked of search
MaxStored == 8     \* longest chunk list of a session retrieve_session_docs reads

(***************************************************************************)
(* Strings and paths.                                                      *)
(***************************************************************************)
Sid1 == <<"s1">>
Sid2 == <<"s2">>
\* ids a client of the API may choose: one that ends in "_vectors", and the name
\* of the index file
SidVectors == Sid1 \o <<"_vectors">>
SidFaiss == <<"vector_index.faiss">>
SessionIds == {Sid1, Sid2, SidVectors, SidFaiss}

NoString == <<>>          \* None, or the empty string: both are falsy in Python

\* os.path.basename: what follows the last "/".
Basename(p) ==
    LET slashes == {i \in 1..Len(p) : p[i] = "/"}
    IN  IF slashes = {} THEN p
        ELSE LET k == CHOOSE i \in slashes : \A j \in slashes : j <= i
             IN  SubSeq(p, k + 1, Len(p))

\* str.replace('_vectors', ''): every occurrence is removed.
RemoveVectors(s) == SelectSeq(s, LAMBDA t : t # "_vectors")

\* the session id the path-based entry points derive from vector_store_path
PathSession(p) == RemoveVectors(Basename(p))

\* f"sessions/{session_id}_vectors"
VectorStorePath(sid) == <<"sessions", "/">> \o sid \o <<"_vectors">>

(***************************************************************************)
(* Chunks.  A chunk is a Python dict; source_info is a dict too, modelled  *)
(* as a set of <<key, value>> pairs with tagged values.                    *)
(***************************************************************************)
PyInt(n) == [t |-> "int", n |-> n, s |-> NoString]
PyStr(s) == [t |-> "str", n |-> 0, s |-> s]

Chunk(id, text, type, source, info, idx, total) ==
    [id |-> id, text |-> text, type |-> type, source |-> source,
     source_info |-> info, chunk_index |-> idx, total_chunks |-> total]

\* The chunk list _chunk_text_with_metadata gives for a text of n windows: ids
\* and chunk_index 0..n-1, total_chunks n.  The second window holds a page marker.
WindowText(i) ==
    CASE i = 1 -> <<"Cats">>
      [] i = 2 -> <<"Dogs">>
      [] OTHER -> <<"Birds">>

Document(n) ==
    [i \in 1..n |->
        Chunk(i - 1, WindowText(i), "text", <<"text_input">>,
              IF i = 2 THEN {<<"page", PyInt(1)>>} ELSE {}, i - 1, n)]

ChunkLists == {Document(n) : n \in 0..MaxChunks}

\* Chunk texts spelled character by character, for the keyword scan; the texts
\* are of different lengths and not in order of length.
NoteText(i) ==
    CASE i = 1 -> <<"C", "a", "t", "s", "!", "!">>
      [] i = 2 -> <<"D", "o", "g">>
      [] i = 3 -> <<"c", "a", "t">>
      [] i = 4 -> <<"A", " ", "C", "A", "T", ".">>
      [] i = 5 -> <<"S", "c", "a", "t", "t", "e", "r">>
      [] i = 6 -> <<"D", "o", "g", "m", "a">>
      [] i = 7 -> <<"c", "a", "t", "s">>
      [] i = 8 -> <<"t", "o", "m", "c", "a", "t">>
      [] OTHER -> <<"a", "c", "t">>

Notes(n) ==
    [i \in 1..n |-> Chunk(i - 1, NoteText(i), "text", <<"text_input">>, {}, i - 1, n)]

NoteLists == {Notes(2), Notes(MaxStored)}

NoteQueries == {<<"c", "a", "t">>, <<"C", "A", "T">>, <<"d", "o", "g">>}

Queries == {<<"cats">>, <<"dogs">>}

(***************************************************************************)
(* json.dump / json.load of a chunk list (chunk_metadata.json, chunks.json) *)
(* A file body is a sequence of JSON objects; an object is a set of        *)
(* <<key, value>> members, a value is a tagged number, string or object.   *)
(***************************************************************************)
JNum(n) == [t |-> "number", n |-> n, s |-> NoString, o |-> {}]
JString(s) == [t |-> "string", n |-> 0, s |-> s, o |-> {}]
JObject(o) == [t |-> "object", n |-> 0, s |-> NoString, o |-> o]

\* the members of a source_info dict
JsonOfInfo(info) ==
    {<<m[1], IF m[2].t = "int" THEN JNum(m[2].n) ELSE JString(m[2].s)>> : m \in info}

InfoOfJson(o) ==
    {<<m[1], IF m[2].t = "number" THEN PyInt(m[2].n) ELSE PyStr(m[2].s)>> : m \in o}

JsonOfChunk(c) ==
    { <<"id", JNum(c.id)>>,
      <<"text", JString(c.text)>>,
      <<"type", JString(<<c.type>>)>>,
      <<"source", JString(c.source)>>,
      <<"source_info", JObject(JsonOfInfo(c.source_info))>>,
      <<"chunk_index", JNum(c.chunk_index)>>,
      <<"total_chunks", JNum(c.total_chunks)>> }

Member(obj, key) == (CHOOSE m \in obj : m[1] = key)[2]

ChunkOfJson(obj) ==
    [id |-> Member(obj, "id").n,
     text |-> Member(obj, "text").s,
     type |-> Member(obj, "type").s[1],
     source |-> Member(obj, "source").s,
     source_info |-> InfoOfJson(Member(obj, "source_info").o),
     chunk_index |-> Member(obj, "chunk_index").n,
     total_chunks |-> Member(obj, "total_chunks").n]

JsonDump(chunks) == [i \in 1..Len(chunks) |-> JsonOfChunk(chunks[i])]
JsonLoad(body) == [i \in 1..Len(body) |-> ChunkOfJson(body[i])]

(***************************************************************************)
(* Embeddings.  The two embedding paths give different vectors for a text; *)
(* the remote path's dimension is cfg.gemini_dim.                          *)
(***************************************************************************)
Dot(u, v) ==
    LET S[i \in 0..Len(u)] == IF i = 0 THEN 0 ELSE S[i - 1] + u[i] * v[i]
    IN  S[Len(u)]

\* SentenceTransformer.encode of one text (not normalized)
LocalVector(text) ==
    CASE text = <<"Cats">> -> <<6, 8>>
      [] text = <<"Dogs">> -> <<4, -3>>
      [] text = <<"cats">> -> <<3, 4>>
      [] text = <<"dogs">> -> <<8, -6>>
      [] text = <<"Birds">> -> <<-3, 4>>
      [] OTHER -> <<0, 5>>

\* the remote model's vector of one text, of dimension d >= 2
GeminiVector(text, d) ==
    LET base == CASE text = <<"Cats">> -> <<0, 5>>
                  [] text = <<"Dogs">> -> <<5, 0>>
                  [] text = <<"cats">> -> <<0, 10>>
                  [] text = <<"dogs">> -> <<10, 0>>
                  [] text = <<"Birds">> -> <<3, 4>>
                  [] OTHER -> <<-3, 4>>
    IN  [i \in 1..d |-> IF i <= 2 THEN base[i] ELSE 0]

\* faiss.normalize_L2: every row scaled to unit length (5 in this model's scale)
NormalizeRow(v) ==
    LET n2 == Dot(v, v)
        norm == CHOOSE k \in 0..n2 : k * k = n2
    IN  IF n2 = 0 THEN v ELSE [i \in 1..Len(v) |-> (v[i] * 5) \div norm]

NormalizeL2(rows) == [i \in 1..Len(rows) |-> NormalizeRow(rows[i])]

(***************************************************************************)
(* faiss.IndexFlatIP.                                                      *)
(***************************************************************************)
NoLabel == -1
\* the score faiss reports with the label -1: below every inner product
NoScore == -(5 * 5) - 1

\* A faulty variant: every vector of the index is returned, whatever k is
IndexSearch_All(vecs, q, k) ==
    LET n == Len(vecs)
        score(j) == Dot(vecs[j], q)
        before(a, b) == score(a) > score(b) \/ (score(a) = score(b) /\ a < b)
        pos(j) == Cardinality({l \in 1..n : before(l, j)}) + 1
        at(i) == CHOOSE j \in 1..n : pos(j) = i
    IN  [i \in 1..n |-> [score |-> score(at(i)), label |-> at(i) - 1]]

\* index.search(query, k): the k best (score, label) pairs, best first, labels
\* 0-based, padded with (NoScore, -1) when the index holds fewer than k vectors.
IndexSearch(vecs, q, k) ==
    LET n == Len(vecs)
        score(j) == Dot(vecs[j], q)
        before(a, b) == score(a) > score(b) \/ (score(a) = score(b) /\ a < b)
        pos(j) == Cardinality({l \in 1..n : before(l, j)}) + 1
        at(i) == CHOOSE j \in 1..n : pos(j) = i
    IN  [i \in 1..k |->
            IF i <= n THEN [score |-> score(at(i)), label |-> at(i) - 1]
            ELSE [score |-> NoScore, label |-> NoLabel]]

(***************************************************************************)
(* A session's files.                                                      *)
(***************************************************************************)
AbsentIndex == [st |-> "absent", d |-> 0, vecs |-> <<>>]
AbsentJson == [st |-> "absent", body |-> <<>>]
CorruptJson == [st |-> "corrupt", body |-> <<>>]     \* truncated: not valid JSON
AbsentInfo ==
    [st |-> "absent", model |-> "", dimension |-> 0, chunk_count |-> 0,
     use_gemini |-> FALSE]
CorruptInfo == [AbsentInfo EXCEPT !.st = "corrupt"]

EmptySession ==
    [dir |-> FALSE,            \* the directory sessions/<session id> exists
     index |-> AbsentIndex,    \* vector_index.faiss
     meta |-> AbsentJson,      \* chunk_metadata.json
     info |-> AbsentInfo,      \* embedding_info.json
     raw |-> AbsentJson]       \* chunks.json

\* the files under os.path.join(sessions_dir, session_id)
Files(st, sid) == IF sid \in DOMAIN st THEN st[sid] ELSE EmptySession

(***************************************************************************)
(* KenshoVectorStore.                                                      *)
(***************************************************************************)
EmbeddingDim == 2          \* self.embedding_dim, the local model's dimension
LocalModelName == "all-MiniLM-L6-v2"
GeminiModelName == "gemini-text-embedding-004"

Configs ==
    {[api_key |-> FALSE, gemini_dim |-> EmbeddingDim],
     [api_key |-> TRUE, gemini_dim |-> EmbeddingDim],
     [api_key |-> TRUE, gemini_dim |-> EmbeddingDim + 1]}

Texts(chunks) == [i \in 1..Len(chunks) |-> chunks[i].text]

_create_sentence_transformer_embeddings(texts) ==
    [path |-> "local", rows |-> [i \in 1..Len(texts) |-> LocalVector(texts[i])]]

\* A faulty variant: a failed request ends the call with nothing, no fallback
_create_gemini_embeddings_NoFallback(c, texts, remote_ok) ==
    IF remote_ok
    THEN [path |-> "gemini",
          rows |-> [i \in 1..Len(texts) |-> GeminiVector(texts[i], c.gemini_dim)]]
    ELSE [path |-> "none", rows |-> <<>>]

\* remote_ok: every request of the batch is answered; otherwise the except
\* branch falls back to the local model
_create_gemini_embeddings(c, texts, remote_ok) ==
    IF remote_ok
    THEN [path |-> "gemini",
          rows |-> [i \in 1..Len(texts) |-> GeminiVector(texts[i], c.gemini_dim)]]
    ELSE _create_sentence_transformer_embeddings(texts)

create_embeddings(c, texts, use_gemini, remote_ok) ==
    IF use_gemini /\ c.api_key
    THEN _create_gemini_embeddings(c, texts, remote_ok)
    ELSE _create_sentence_transformer_embeddings(texts)

\* index.add / index.search assert that the rows have the index's dimension
DimensionOk(d, rows) == \A i \in 1..Len(rows) : Len(rows[i]) = d

\* normalize_L2 and index.add take a matrix of n >= 1 rows of the index's
\* dimension: the array made of no embeddings has no second dimension, and they
\* raise on it as they do on rows of another dimension
BatchOk(d, rows) == Len(rows) > 0 /\ DimensionOk(d, rows)

\* The places where build_index can raise.  "before_write": while embedding or
\* adding to the index; "meta_open": opening chunk_metadata.json; "meta_dump":
\* inside json.dump, the file being truncated already; "info_open": opening
\* embedding_info.json.
BuildFaults == {"none", "before_write", "meta_open", "meta_dump", "info_open"}

IndexFile(rows) == [st |-> "ok", d |-> EmbeddingDim, vecs |-> NormalizeL2(rows)]
\* A faulty variant: the metadata is written without the chunks' source_info
MetaFile_NoSourceInfo(chunks) ==
    [st |-> "ok",
     body |-> JsonDump([i \in 1..Len(chunks) |-> [chunks[i] EXCEPT !.source_info = {}]])]

MetaFile(chunks) == [st |-> "ok", body |-> JsonDump(chunks)]
InfoFile(chunks, use_gemini) ==
    [st |-> "ok",
     model |-> IF ~use_gemini THEN LocalModelName ELSE GeminiModelName,
     dimension |-> EmbeddingDim,
     chunk_count |-> Len(chunks),
     use_gemini |-> use_gemini]

\* A faulty variant: build_index adds to the index and to the metadata that are
\* there instead of replacing them
build_index_Appends(c, f, chunks, use_gemini, remote_ok, fault) ==
    LET emb == create_embeddings(c, Texts(chunks), use_gemini, remote_ok)
        f0 == [f EXCEPT !.dir = TRUE]
        f1 == [f0 EXCEPT !.index = [IndexFile(emb.rows) EXCEPT
                                      !.vecs = f.index.vecs \o NormalizeL2(emb.rows)]]
        f2 == [f1 EXCEPT !.meta = [st |-> "ok", body |-> f.meta.body \o JsonDump(chunks)]]
        f3 == [f2 EXCEPT !.info = InfoFile(chunks, use_gemini)]
    IN  IF fault = "before_write" \/ ~BatchOk(EmbeddingDim, emb.rows)
        THEN [ok |-> FALSE, files |-> f0]
        ELSE CASE fault = "meta_open" -> [ok |-> FALSE, files |-> f1]
               [] fault = "meta_dump" ->
                    [ok |-> FALSE, files |-> [f1 EXCEPT !.meta = CorruptJson]]
               [] fault = "info_open" -> [ok |-> FALSE, files |-> f2]
               [] OTHER -> [ok |-> TRUE, files |-> f3]

\* A faulty variant: the index file is written before the embeddings are made
build_index_WritesEarly(c, f, chunks, use_gemini, remote_ok, fault) ==
    LET emb == create_embeddings(c, Texts(chunks), use_gemini, remote_ok)
        f0 == [f EXCEPT !.dir = TRUE]
        f1 == [f0 EXCEPT !.index = IndexFile(emb.rows)]
        f2 == [f1 EXCEPT !.meta = MetaFile(chunks)]
        f3 == [f2 EXCEPT !.info = InfoFile(chunks, use_gemini)]
    IN  IF fault = "before_write" \/ ~BatchOk(EmbeddingDim, emb.rows)
        THEN [ok |-> FALSE, files |-> [f0 EXCEPT !.index = IndexFile(<<>>)]]
        ELSE CASE fault = "meta_open" -> [ok |-> FALSE, files |-> f1]
               [] fault = "meta_dump" ->
                    [ok |-> FALSE, files |-> [f1 EXCEPT !.meta = CorruptJson]]
               [] fault = "info_open" -> [ok |-> FALSE, files |-> f2]
               [] OTHER -> [ok |-> TRUE, files |-> f3]

\* A faulty variant: build_index reports success although embedding_info.json could not
\* be written
build_index_IgnoresInfoError(c, f, chunks, use_gemini, remote_ok, fault) ==
    LET emb == create_embeddings(c, Texts(chunks), use_gemini, remote_ok)
        f0 == [f EXCEPT !.dir = TRUE]                     \* os.makedirs
        f1 == [f0 EXCEPT !.index = IndexFile(emb.rows)]
        f2 == [f1 EXCEPT !.meta = MetaFile(chunks)]
        f3 == [f2 EXCEPT !.info = InfoFile(chunks, use_gemini)]
    IN  IF fault = "before_write" \/ ~BatchOk(EmbeddingDim, emb.rows)
        THEN [ok |-> FALSE, files |-> f0]
        ELSE CASE fault = "meta_open" -> [ok |-> FALSE, files |-> f1]
               [] fault = "meta_dump" ->
                    [ok |-> FALSE, files |-> [f1 EXCEPT !.meta = CorruptJson]]
               [] fault = "info_open" -> [ok |-> TRUE, files |-> f2]
               [] OTHER -> [ok |-> TRUE, files |-> f3]

\* build_index: the return value and the session's files afterwards
build_index(c, f, chunks, use_gemini, remote_ok, fault) ==
    LET emb == create_embeddings(c, Texts(chunks), use_gemini, remote_ok)
        f0 == [f EXCEPT !.dir = TRUE]                     \* os.makedirs
        f1 == [f0 EXCEPT !.index = IndexFile(emb.rows)]
        f2 == [f1 EXCEPT !.meta = MetaFile(chunks)]
        f3 == [f2 EXCEPT !.info = InfoFile(chunks, use_gemini)]
    IN  IF fault = "before_write" \/ ~BatchOk(EmbeddingDim, emb.rows)
        THEN [ok |-> FALSE, files |-> f0]
        ELSE CASE fault = "meta_open" -> [ok |-> FALSE, files |-> f1]
               [] fault = "meta_dump" ->
                    [ok |-> FALSE, files |-> [f1 EXCEPT !.meta = CorruptJson]]
               [] fault = "info_open" -> [ok |-> FALSE, files |-> f2]
               [] OTHER -> [ok |-> TRUE, files |-> f3]

\* load_index: None, or the (index, chunks, embedding_info) triple
NoneLoaded == [kind |-> "none", index |-> AbsentIndex, chunks |-> <<>>, info |-> AbsentInfo]

load_index(f) ==
    IF f.index.st = "absent" THEN NoneLoaded               \* return None
    ELSE IF f.index.st # "ok" \/ f.meta.st # "ok" \/ f.info.st # "ok"
         THEN NoneLoaded                                   \* except: return None
         ELSE [kind |-> "data", index |-> f.index,
               chunks |-> JsonLoad(f.meta.body), info |-> f.info]

\* delete_session_index: the return value and the files afterwards; os.remove of
\* a file that exists is taken to succeed
Exists(file) == file.st # "absent"

\* A faulty variant: files_to_delete lacks embedding_info.json
delete_session_index_KeepsInfo(f) ==
    LET deleted_count ==
            (IF Exists(f.index) THEN 1 ELSE 0) + (IF Exists(f.meta) THEN 1 ELSE 0)
    IN  [ok |-> deleted_count > 0,
         files |-> [f EXCEPT !.index = AbsentIndex, !.meta = AbsentJson]]

delete_session_index(f) ==
    LET deleted_count ==
            (IF Exists(f.index) THEN 1 ELSE 0) + (IF Exists(f.meta) THEN 1 ELSE 0)
            + (IF Exists(f.info) THEN 1 ELSE 0)
    IN  [ok |-> deleted_count > 0,
         files |-> [f EXCEPT !.index = AbsentIndex, !.meta = AbsentJson,
                             !.info = AbsentInfo]]

\* rebuild_index
rebuild_index(c, f, use_gemini, remote_ok, fault) ==
    IF ~Exists(f.raw) THEN [ok |-> FALSE, files |-> f]
    ELSE IF f.raw.st # "ok" THEN [ok |-> FALSE, files |-> f]
    ELSE build_index(c, delete_session_index(f).files, JsonLoad(f.raw.body),
                     use_gemini, remote_ok, fault)

\* chunks[idx] of Python, idx 0-based, negative idx counting from the end;
\* IndexError when out of range
InRange(chunks, idx) == -Len(chunks) <= idx /\ idx < Len(chunks)
PyItem(chunks, idx) == IF idx >= 0 THEN chunks[idx + 1] ELSE chunks[Len(chunks) + idx + 1]

\* the session id search works on ("Handle both parameter styles")
SearchSession(vector_store_path, session_id) ==
    IF vector_store_path # NoString /\ session_id = NoString
    THEN PathSession(vector_store_path)
    ELSE session_id

\* A faulty variant: every result is put in front of the list instead of appended
PrepareResults_Prepends(chunks, hits) ==
    LET valid(i) == hits[i].label < Len(chunks)
        kept == SelectSeq([i \in 1..Len(hits) |-> i], valid)
        exc == \E i \in 1..Len(hits) : valid(i) /\ ~InRange(chunks, hits[i].label)
    IN  [exc |-> exc,
         results |-> IF exc THEN <<>>
                     ELSE [r \in 1..Len(kept) |->
                            [chunk |-> PyItem(chunks, hits[kept[Len(kept) + 1 - r]].label),
                             similarity_score |-> hits[kept[Len(kept) + 1 - r]].score,
                             rank |-> kept[Len(kept) + 1 - r]]]]

\* the loop that prepares the results from index.search's (score, label) pairs
PrepareResults(chunks, hits) ==
    LET valid(i) == hits[i].label < Len(chunks)
        kept == SelectSeq([i \in 1..Len(hits) |-> i], valid)
        exc == \E i \in 1..Len(hits) : valid(i) /\ ~InRange(chunks, hits[i].label)
    IN  [exc |-> exc,
         results |-> IF exc THEN <<>>
                     ELSE [r \in 1..Len(kept) |->
                            [chunk |-> PyItem(chunks, hits[kept[r]].label),
                             similarity_score |-> hits[kept[r]].score,
                             rank |-> kept[r]]]]

\* the try block of search: exc when an exception leaves it
SearchBody(c, st, query, vector_store_path, session_id, top_k, use_gemini, remote_ok, qfault) ==
    LET sid == SearchSession(vector_store_path, session_id)
        index_data == load_index(Files(st, sid))
        emb == create_embeddings(c, <<query>>, use_gemini, remote_ok)
        Raise == [exc |-> TRUE, results |-> <<>>]
    IN  IF index_data.kind = "none" THEN [exc |-> FALSE, results |-> <<>>]
        ELSE IF qfault THEN Raise                     \* the embedding call raises
        ELSE IF ~DimensionOk(index_data.index.d, emb.rows) THEN Raise
        ELSE LET prepared ==
                    PrepareResults(index_data.chunks,
                        IndexSearch(index_data.index.vecs, NormalizeRow(emb.rows[1]), top_k))
             IN  IF prepared.exc THEN Raise ELSE prepared

\* A faulty variant: search without its except branch: the exception reaches the caller
search_Propagates(c, st, query, vector_store_path, session_id, top_k, use_gemini, remote_ok, qfault) ==
    LET body == SearchBody(c, st, query, vector_store_path, session_id, top_k,
                           use_gemini, remote_ok, qfault)
    IN  [raised |-> body.exc, results |-> body.results]

\* search: what the caller gets
search(c, st, query, vector_store_path, session_id, top_k, use_gemini, remote_ok, qfault) ==
    LET body == SearchBody(c, st, query, vector_store_path, session_id, top_k,
                           use_gemini, remote_ok, qfault)
    IN  IF body.exc THEN [raised |-> FALSE, results |-> <<>>]      \* except: return []
        ELSE [raised |-> FALSE, results |-> body.results]

\* create_index: build_index on the session the path names
create_index(c, st, chunks, vector_store_path, fault) ==
    LET session_id == PathSession(vector_store_path)
        r == build_index(c, Files(st, session_id), chunks, FALSE, FALSE, fault)
    IN  [ok |-> r.ok, session_id |-> session_id, files |-> r.files]

\* get_all_chunks: the chunk list of the session the path names
get_all_chunks(st, vector_store_path) ==
    LET index_data == load_index(Files(st, PathSession(vector_store_path)))
    IN  IF index_data.kind = "data" THEN index_data.chunks ELSE <<>>

(***************************************************************************)
(* retrieve_session_docs (kensho/tools.py).                                *)
(***************************************************************************)
SemanticTopK == 5          \* top_k of the semantic search
KeywordTopK == 5           \* the keyword scans keep the first five hits

\* str.lower, on the letters the texts of the model use
LowerChar(ch) ==
    CASE ch = "A" -> "a"
      [] ch = "C" -> "c"
      [] ch = "D" -> "d"
      [] ch = "S" -> "s"
      [] ch = "T" -> "t"
      [] OTHER -> ch

Lower(s) == [i \in 1..Len(s) |-> LowerChar(s[i])]

\* sub in s
Contains(s, sub) ==
    \E i \in 0..(Len(s) - Len(sub)) : SubSeq(s, i + 1, i + Len(sub)) = sub

\* lowered_query in c['text'].lower()
Matches(c, query) == Contains(Lower(c.text), Lower(query))

\* sorted(hits, key=lambda c: len(c['text'])): stable, shortest text first
SortedByLength(hits) ==
    LET n == Len(hits)
        before(a, b) ==
            \/ Len(hits[a].text) < Len(hits[b].text)
            \/ (Len(hits[a].text) = Len(hits[b].text) /\ a < b)
        pos(j) == Cardinality({l \in 1..n : before(l, j)}) + 1
    IN  [i \in 1..n |-> hits[CHOOSE j \in 1..n : pos(j) = i]]

\* the keyword scan of a chunk list: the hits, sorted, cut to five
KeywordHits(chunks, query) ==
    LET hits == SelectSeq(chunks, LAMBDA c : Matches(c, query))
        sorted == SortedByLength(hits)
    IN  SubSeq(sorted, 1, IF Len(sorted) < KeywordTopK THEN Len(sorted) ELSE KeywordTopK)

NoRetrieved == [kind |-> "none", fallback |-> FALSE, chunks |-> <<>>, text |-> <<>>]

\* A faulty variant: the keyword scan runs whatever the semantic search found,
\* and its hits are preferred
retrieve_session_docs_AlwaysScans(c, st, query, session_id, qfault) ==
    LET session_dir == <<"sessions", "/">> \o session_id
        semantic == search(c, st, query, NoString, session_id, SemanticTopK,
                           FALSE, FALSE, qfault).results
        found1 == [i \in 1..Len(semantic) |-> semantic[i].chunk]
        all_chunks == get_all_chunks(st, session_dir \o <<"/", "vector_index.faiss">>)
        hits == KeywordHits(all_chunks, query)
        found2 == IF hits # <<>> THEN hits ELSE found1
        chunks_file == Files(st, PathSession(session_dir)).meta
        found3 == IF found2 = <<>> /\ chunks_file.st = "ok"
                  THEN KeywordHits(JsonLoad(chunks_file.body), query)
                  ELSE found2
    IN  IF ~Files(st, session_id).dir
        THEN [NoRetrieved EXCEPT !.kind = "no_session"]
        ELSE IF found3 = <<>>
        THEN [NoRetrieved EXCEPT !.kind = "nothing", !.fallback = TRUE]
        ELSE [kind |-> "context", fallback |-> found1 = <<>> \/ hits # <<>>,
              chunks |-> found3, text |-> Texts(found3)]

\* kind: "no_session" and "nothing" are the two messages, "context" the text of
\* the chunks found; fallback: the semantic search had found nothing; chunks:
\* context_chunks at the end
retrieve_session_docs(c, st, query, session_id, qfault) ==
    LET session_dir == <<"sessions", "/">> \o session_id
        semantic == search(c, st, query, NoString, session_id, SemanticTopK,
                           FALSE, FALSE, qfault).results
        found1 == [i \in 1..Len(semantic) |-> semantic[i].chunk]
        all_chunks == get_all_chunks(st, session_dir \o <<"/", "vector_index.faiss">>)
        found2 == IF found1 = <<>> THEN KeywordHits(all_chunks, query) ELSE found1
        chunks_file == Files(st, PathSession(session_dir)).meta
        found3 == IF found2 = <<>> /\ chunks_file.st = "ok"
                  THEN KeywordHits(JsonLoad(chunks_file.body), query)
                  ELSE found2
    IN  IF ~Files(st, session_id).dir
        THEN [NoRetrieved EXCEPT !.kind = "no_session"]
        ELSE IF found3 = <<>>
        THEN [NoRetrieved EXCEPT !.kind = "nothing", !.fallback = TRUE]
        ELSE [kind |-> "context", fallback |-> found1 = <<>>, chunks |-> found3,
              text |-> Texts(found3)]

(***************************************************************************)
(* The chunker (kensho/document_processor.py).  A text is a sequence of    *)
(* characters; the openings "[source: page " and "[timestamp: " of the     *)
(* markers count as one character each.  The splitter is langchain's       *)
(* RecursiveCharacterTextSplitter as __init__ configures it, with a window *)
(* of ChunkSize characters instead of 1000 and an overlap of ChunkOverlap  *)
(* instead of 200.                                                         *)
(***************************************************************************)
ChunkSize == 4
ChunkOverlap == 1

Separators == << <<"\n", "\n">>, <<"\n">>, <<".", " ">>, <<" ">>, <<>> >>

Whitespace == {" ", "\n"}

\* str.strip()
RECURSIVE Strip(_)
Strip(s) ==
    IF s = <<>> THEN s
    ELSE IF Head(s) \in Whitespace THEN Strip(Tail(s))
    ELSE IF s[Len(s)] \in Whitespace THEN Strip(SubSeq(s, 1, Len(s) - 1))
    ELSE s

RECURSIVE Concat(_)
Concat(parts) == IF parts = <<>> THEN <<>> ELSE Head(parts) \o Concat(Tail(parts))

RECURSIVE TotalLen(_)
TotalLen(parts) == IF parts = <<>> THEN 0 ELSE Len(Head(parts)) + TotalLen(Tail(parts))

StartsAt(text, sep, i) ==
    i + Len(sep) - 1 <= Len(text) /\ SubSeq(text, i, i + Len(sep) - 1) = sep

\* the starts of the matches of sep in text from position i on, leftmost first
\* and not overlapping (re.split)
RECURSIVE Occurrences(_, _, _)
Occurrences(text, sep, i) ==
    IF i > Len(text) THEN <<>>
    ELSE IF StartsAt(text, sep, i) THEN <<i>> \o Occurrences(text, sep, i + Len(sep))
    ELSE Occurrences(text, sep, i + 1)

\* _split_text_with_regex(text, separator, keep_separator=True): every piece
\* but the first begins with the separator; the empty separator splits into
\* characters; empty pieces are dropped
SplitWithRegex(text, sep) ==
    LET occ == Occurrences(text, sep, 1)
        n == Len(occ)
        piece(k) ==    \* k = 0: what precedes the first match
            LET from == IF k = 0 THEN 1 ELSE occ[k]
                to == IF k = n THEN Len(text) ELSE occ[k + 1] - 1
            IN  SubSeq(text, from, to)
        pieces == IF sep = <<>> THEN [i \in 1..Len(text) |-> <<text[i]>>]
                  ELSE [k \in 1..(n + 1) |-> piece(k - 1)]
    IN  SelectSeq(pieces, LAMBDA p : p # <<>>)

\* _join_docs(docs, ""): the pieces joined and stripped; <<>> stands for None
JoinDocs(docs) == Strip(Concat(docs))

AppendDoc(docs, current_doc) ==
    IF JoinDocs(current_doc) = <<>> THEN docs ELSE Append(docs, JoinDocs(current_doc))

\* the while loop of _merge_splits: pieces leave current_doc from the front
\* until the overlap is small enough and the next piece of length len fits
RECURSIVE DropFront(_, _)
DropFront(current_doc, len) ==
    LET total == TotalLen(current_doc)
    IN  IF total > ChunkOverlap \/ (total + len > ChunkSize /\ total > 0)
        THEN DropFront(Tail(current_doc), len)
        ELSE current_doc

\* _merge_splits(splits, ""): st is the loop's state before the i-th piece
RECURSIVE MergeFrom(_, _, _, _)
MergeFrom(splits, i, docs, current_doc) ==
    IF i > Len(splits) THEN AppendDoc(docs, current_doc)
    ELSE LET d == splits[i]
             full == TotalLen(current_doc) + Len(d) > ChunkSize
         IN  IF full /\ current_doc # <<>>
             THEN MergeFrom(splits, i + 1, AppendDoc(docs, current_doc),
                            Append(DropFront(current_doc, Len(d)), d))
             ELSE MergeFrom(splits, i + 1, docs, Append(current_doc, d))

MergeSplits(splits) == MergeFrom(splits, 1, <<>>, <<>>)

\* the separator _split_text picks: the first of the list that is empty or
\* occurs in the text
PickSeparator(text, seps) ==
    CHOOSE i \in 1..Len(seps) :
        /\ seps[i] = <<>> \/ Occurrences(text, seps[i], 1) # <<>>
        /\ \A j \in 1..(i - 1) : seps[j] # <<>> /\ Occurrences(text, seps[j], 1) = <<>>

\* _split_text(text, separators); SplitPieces is its loop over the pieces from
\* the i-th on, good the pieces shorter than the window not merged yet
RECURSIVE SplitText(_, _), SplitPieces(_, _, _, _)
SplitText(text, seps) ==
    LET k == PickSeparator(text, seps)
        new_separators == IF seps[k] = <<>> THEN <<>> ELSE SubSeq(seps, k + 1, Len(seps))
    IN  SplitPieces(SplitWithRegex(text, seps[k]), 1, <<>>, new_separators)

SplitPieces(splits, i, good, new_separators) ==
    IF i > Len(splits) THEN (IF good = <<>> THEN <<>> ELSE MergeSplits(good))
    ELSE IF Len(splits[i]) < ChunkSize
    THEN SplitPieces(splits, i + 1, Append(good, splits[i]), new_separators)
    ELSE (IF good = <<>> THEN <<>> ELSE MergeSplits(good))
         \o (IF new_separators = <<>> THEN <<splits[i]>>
             ELSE SplitText(splits[i], new_separators))
         \o SplitPieces(splits, i + 1, <<>>, new_separators)

\* self.text_splitter.split_text(text)
split_text(text) == SplitText(text, Separators)

IsDigit(tok) == tok \in {"0", "1", "2", "3", "4", "5", "6", "7", "8", "9"}

DigitValue(tok) ==
    CASE tok = "0" -> 0 [] tok = "1" -> 1 [] tok = "2" -> 2 [] tok = "3" -> 3
      [] tok = "4" -> 4 [] tok = "5" -> 5 [] tok = "6" -> 6 [] tok = "7" -> 7
      [] tok = "8" -> 8 [] OTHER -> 9

\* int(digits)
RECURSIVE IntOf(_)
IntOf(digits) ==
    IF digits = <<>> THEN 0
    ELSE 10 * IntOf(SubSeq(digits, 1, Len(digits) - 1)) + DigitValue(digits[Len(digits)])

\* the matches of r'\[source: page (\d+)\]' in a text: <<i, j>>, the opening at
\* i and the bracket that closes it at j
PageMatches(text) ==
    {p \in (1..Len(text)) \X (1..Len(text)) :
        /\ text[p[1]] = "[source: page "
        /\ p[2] > p[1] + 1
        /\ text[p[2]] = "]"
        /\ \A m \in (p[1] + 1)..(p[2] - 1) : IsDigit(text[m])}

\* the matches of r'\[timestamp: (\d{2}:\d{2})\]': the place of the opening
TimeMatches(text) ==
    {p \in 1..Len(text) :
        /\ p + 6 <= Len(text)
        /\ text[p] = "[timestamp: "
        /\ IsDigit(text[p + 1]) /\ IsDigit(text[p + 2])
        /\ text[p + 3] = ":"
        /\ IsDigit(text[p + 4]) /\ IsDigit(text[p + 5])
        /\ text[p + 6] = "]"}

\* _extract_source_info(chunk): the first page marker and the first timestamp
_extract_source_info(chunk) ==
    LET pages == PageMatches(chunk)
        times == TimeMatches(chunk)
        page_match == CHOOSE p \in pages : \A q \in pages : p[1] <= q[1]
        time_match == CHOOSE p \in times : \A q \in times : p <= q
    IN  (IF pages = {} THEN {}
         ELSE {<<"page", PyInt(IntOf(SubSeq(chunk, page_match[1] + 1, page_match[2] - 1)))>>})
        \cup
        (IF times = {} THEN {}
         ELSE {<<"timestamp", PyStr(SubSeq(chunk, time_match + 1, time_match + 5))>>})

\* A faulty variant: total_chunks counts the chunks made so far
_chunk_text_with_metadata_CountsSoFar(text, doc_type, source) ==
    LET chunks == split_text(text)
    IN  [i \in 1..Len(chunks) |->
            Chunk(i - 1, chunks[i], doc_type, source, _extract_source_info(chunks[i]),
                  i - 1, i)]

\* _chunk_text_with_metadata(text, doc_type, source)
_chunk_text_with_metadata(text, doc_type, source) ==
    LET chunks == split_text(text)
    IN  [i \in 1..Len(chunks) |->
            Chunk(i - 1, chunks[i], doc_type, source, _extract_source_info(chunks[i]),
                  i - 1, Len(chunks))]

\* create_session_id(content): the first twelve digits of the content's MD5,
\* kept as the content it is the digest of
create_session_id(content) == <<"md5">> \o content

\* A faulty variant: the text returned is the stripped one
process_text_ReturnsStripped(text, source_name) ==
    [session_id |-> create_session_id(text), full_text |-> Strip(text),
     chunks |-> _chunk_text_with_metadata(text, "text", source_name)]

\* process_text(text, source_name): the tuple returned
process_text(text, source_name) ==
    [session_id |-> create_session_id(text), full_text |-> text,
     chunks |-> _chunk_text_with_metadata(text, "text", source_name)]

NoProcessed == [session_id |-> NoString, full_text |-> NoString, chunks |-> <<>>]

(***************************************************************************)
(* The assistant (kensho/ai_assistant.py): the helpers that pick chunks    *)
(* and that derive sources, citations and a confidence from them.          *)
(* A similarity score is a number of thousandths, a confidence a number of *)
(* hundredths (round(.., 2)); a dict value that may be absent, None or of  *)
(* another type is a tagged value like PyInt and PyStr.                    *)
(***************************************************************************)
PyFloat(n) == [t |-> "float", n |-> n, s |-> NoString]
PyNone == [t |-> "none", n |-> 0, s |-> NoString]
Missing == [t |-> "missing", n |-> 0, s |-> NoString]     \* the key is not in the dict

\* a chunk as search returns it: the stored chunk and its similarity_score
Scored(c, score) ==
    [id |-> c.id, text |-> c.text, type |-> c.type, source |-> c.source,
     source_info |-> c.source_info, chunk_index |-> c.chunk_index,
     total_chunks |-> c.total_chunks, similarity_score |-> score]

\* chunk.get('similarity_score', 0.0)
GetScore(chunk) ==
    IF chunk.similarity_score.t = "missing" THEN PyFloat(0) ELSE chunk.similarity_score

IsNumber(v) == v.t \in {"float", "int"}

\* sum(values) of Python, starting from 0 and adding from the left
RECURSIVE SumTo(_, _)
SumTo(values, n) == IF n = 0 THEN 0 ELSE SumTo(values, n - 1) + values[n].n

\* round(num / den, 2) in hundredths, num / den in [0, 1]: to the nearest
\* hundredth, a tie going to the even one
Round2(num, den) ==
    LET q == (100 * num) \div den
        r == (100 * num) % den
    IN  IF 2 * r < den THEN q
        ELSE IF 2 * r > den THEN q + 1
        ELSE IF q % 2 = 0 THEN q ELSE q + 1

\* A faulty variant: the average is rounded without being clamped
_calculate_confidence_NoClamp(chunks) ==
    LET similarity_scores == [i \in 1..Len(chunks) |-> GetScore(chunks[i])]
        n == Len(similarity_scores)
        total == SumTo(similarity_scores, n)
    IN  IF chunks = <<>> THEN [raised |-> FALSE, value |-> 0]
        ELSE IF \E i \in 1..n : ~IsNumber(similarity_scores[i])
        THEN [raised |-> TRUE, value |-> 0]
        ELSE [raised |-> FALSE,
              value |-> IF total >= 0 THEN Round2(total, 1000 * n)
                        ELSE -Round2(-total, 1000 * n)]

\* _calculate_confidence(chunks, question): raised when sum meets a score that
\* is no number (TypeError); value in hundredths
_calculate_confidence(chunks) ==
    LET similarity_scores == [i \in 1..Len(chunks) |-> GetScore(chunks[i])]
        n == Len(similarity_scores)
        total == SumTo(similarity_scores, n)
        \* min(max(avg_similarity, 0.0), 1.0), in thousandths times n
        clamped == IF total < 0 THEN 0 ELSE IF total > 1000 * n THEN 1000 * n ELSE total
    IN  IF chunks = <<>> THEN [raised |-> FALSE, value |-> 0]
        ELSE IF \E i \in 1..n : ~IsNumber(similarity_scores[i])
        THEN [raised |-> TRUE, value |-> 0]
        ELSE [raised |-> FALSE, value |-> Round2(clamped, 1000 * n)]

\* sorted(chunks, key=similarity_score, reverse=True): stable, equal scores keep
\* their order
SortedByScore(chunks) ==
    LET n == Len(chunks)
        before(a, b) ==
            \/ GetScore(chunks[a]).n > GetScore(chunks[b]).n
            \/ (GetScore(chunks[a]).n = GetScore(chunks[b]).n /\ a < b)
        pos(j) == Cardinality({l \in 1..n : before(l, j)}) + 1
    IN  [i \in 1..n |-> chunks[CHOOSE j \in 1..n : pos(j) = i]]

\* A faulty variant: the pool is sorted by ascending score
_select_diverse_chunks_Ascending(chunks, num_items) ==
    LET sorted_chunks == SortedByScore(chunks)
        n == Len(chunks)
        k == IF num_items < 0 THEN 0 ELSE num_items
    IN  IF Len(chunks) <= num_items THEN chunks
        ELSE [i \in 1..k |-> sorted_chunks[n + 1 - i]]

\* _select_diverse_chunks(chunks, num_items): the loop appends while fewer than
\* num_items are selected
_select_diverse_chunks(chunks, num_items) ==
    LET sorted_chunks == SortedByScore(chunks)
        k == IF num_items < 0 THEN 0 ELSE num_items
    IN  IF Len(chunks) <= num_items THEN chunks
        ELSE SubSeq(sorted_chunks, 1, k)

\* dict: a set of <<key, value>> pairs, one pair per key
Get(d, key) == (CHOOSE p \in d : p[1] = key)[2]
\* d.update(other): other's pairs replace d's pairs of the same key
Update(d, other) == {p \in d : p[1] \notin {q[1] : q \in other}} \cup other

\* the source descriptor of one chunk
SourceOf(chunk) ==
    LET source == {<<"chunk_id", PyInt(chunk.id)>>, <<"type", PyStr(<<chunk.type>>)>>,
                   <<"source", PyStr(chunk.source)>>}
    IN  IF chunk.source_info # {} THEN Update(source, chunk.source_info) ELSE source

SourceKey(source) == <<Get(source, "type"), Get(source, "source")>>

\* A faulty variant: a later source of the same key replaces the earlier one
_extract_sources_from_chunks_KeepsLast(chunks) ==
    LET sources == [i \in 1..Len(chunks) |-> SourceOf(chunks[i])]
        last_of_key(i) == \A j \in (i + 1)..Len(sources) :
                               SourceKey(sources[j]) # SourceKey(sources[i])
        kept == SelectSeq([i \in 1..Len(sources) |-> i], last_of_key)
    IN  [r \in 1..Len(kept) |-> sources[kept[r]]]

\* _extract_sources_from_chunks: unique_sources keeps the first source of every
\* (type, source) key; a dict lists its values in insertion order
_extract_sources_from_chunks(chunks) ==
    LET sources == [i \in 1..Len(chunks) |-> SourceOf(chunks[i])]
        first_of_key(i) == \A j \in 1..(i - 1) :
                                SourceKey(sources[j]) # SourceKey(sources[i])
        kept == SelectSeq([i \in 1..Len(sources) |-> i], first_of_key)
    IN  [r \in 1..Len(kept) |-> sources[kept[r]]]

\* An answer text is a sequence of tokens: the openings "[source: page " and
\* "[timestamp: ", digits, ":", "]" and words.
\* re.findall(r'\[source: page (\d+)\]', answer): the digit runs matched
PageCitations(answer) == {SubSeq(answer, p[1] + 1, p[2] - 1) : p \in PageMatches(answer)}

\* re.findall(r'\[timestamp: (\d{2}:\d{2})\]', answer)
TimeCitations(answer) == {SubSeq(answer, p + 1, p + 5) : p \in TimeMatches(answer)}

\* _extract_citations_from_answer(answer): re.findall raises TypeError when
\* answer is no string; the citations are "page N" and "timestamp MM:SS"
_extract_citations_from_answer(answer) ==
    IF answer.t # "str" THEN [raised |-> TRUE, citations |-> {}]
    ELSE [raised |-> FALSE,
          citations |-> {<<"page ">> \o c : c \in PageCitations(answer.s)}
                        \cup {<<"timestamp ">> \o c : c \in TimeCitations(answer.s)}]

\* answer_question from the model's reply on: the try block's last statements
\* and its except branch, which returns the error answer
answer_question(context_chunks, answer) ==
    LET sources == _extract_sources_from_chunks(context_chunks)
        citations == _extract_citations_from_answer(answer)
        confidence == _calculate_confidence(context_chunks)
    IN  IF citations.raised \/ confidence.raised
        THEN [error |-> TRUE, answer |-> PyStr(<<"Error generating answer: ">>),
              sources |-> <<>>, citations |-> {}, confidence |-> 0,
              context_chunks_used |-> 0]
        ELSE [error |-> FALSE, answer |-> answer, sources |-> sources,
              citations |-> citations.citations, confidence |-> confidence.value,
              context_chunks_used |-> Len(context_chunks)]

NoAnswer ==
    [error |-> FALSE, answer |-> PyNone, sources |-> <<>>, citations |-> {},
     confidence |-> 0, context_chunks_used |-> 0]

\* what a call of the assistant leaves in last.ai
NoAssist ==
    [pool |-> <<>>, num_items |-> 0, answer |-> PyNone, raised |-> FALSE,
     chunks |-> <<>>, value |-> 0, sources |-> <<>>, citations |-> {},
     reply |-> NoAnswer]

(***************************************************************************)
(* The calls.  A call runs to its return in one step and leaves its record *)
(* in last; Return is the caller taking the result and going on.           *)
(***************************************************************************)
NoArgs ==
    [query |-> NoString, vector_store_path |-> NoString, session_id |-> NoString,
     top_k |-> 0, use_gemini |-> FALSE, remote_ok |-> FALSE, qfault |-> FALSE]

NoCall ==
    [op |-> "none", sid |-> NoString, chunks |-> <<>>, use_gemini |-> FALSE,
     fault |-> "none", ok |-> FALSE, existed |-> FALSE, prev |-> "",
     loaded |-> NoneLoaded, style |-> "", args |-> NoArgs,
     raised |-> FALSE, results |-> <<>>, retrieved |-> NoRetrieved,
     texts |-> <<>>, fail_at |-> 0, emb |-> [path |-> "", rows |-> <<>>],
     remote_ok |-> FALSE, ai |-> NoAssist, processed |-> NoProcessed]

Idle == [pc |-> "idle"]

AnyArtifact(f) == Exists(f.index) \/ Exists(f.meta) \/ Exists(f.info)

\* hist[s].latest: "start", or the latest of the calls build / rebuild / delete on
\* s: "built" (build or rebuild returned True, with the chunks it indexed),
\* "failed" (build or rebuild returned False), "deleted".
\* given: the chunk list the session was last handed for indexing.
NoHistory == [latest |-> "start", chunks |-> <<>>, deleted |-> FALSE, given |-> <<>>]

AfterBuild(h, ok, chunks) ==
    IF ok THEN [latest |-> "built", chunks |-> chunks, deleted |-> FALSE, given |-> chunks]
    ELSE [latest |-> "failed", chunks |-> <<>>, deleted |-> h.deleted,
          given |-> IF chunks # <<>> THEN chunks ELSE h.given]

\* a session id that is not in sessions yet; get_session files it with no
\* document and no vector_store_path
NoSession == [known |-> FALSE, documents |-> <<>>, vector_store_path |-> NoString]

Init ==
    /\ cfg \in Configs
    /\ store = [s \in SessionIds |-> EmptySession]
    /\ last = NoCall
    /\ hist = [s \in SessionIds |-> NoHistory]
    /\ wpc = Idle
    /\ rpc = Idle
    /\ sessions = [s \in SessionIds |-> NoSession]

\* no call is pending and no process is inside build, rebuild or load
Ready == last = NoCall /\ wpc = Idle /\ rpc = Idle

Return ==
    /\ last # NoCall
    /\ last' = NoCall
    /\ UNCHANGED <<cfg, sessions, store, hist, wpc, rpc>>

Build(sid, chunks, use_gemini, remote_ok, fault) ==
    LET r == build_index(cfg, store[sid], chunks, use_gemini, remote_ok, fault)
    IN  /\ Ready
        /\ store' = [store EXCEPT ![sid] = r.files]
        /\ last' = [NoCall EXCEPT !.op = "build", !.sid = sid,
                                  !.chunks = chunks, !.use_gemini = use_gemini,
                                  !.remote_ok = remote_ok,
                                  !.fault = fault, !.ok = r.ok,
                                  !.existed = AnyArtifact(store[sid]),
                                  !.prev = hist[sid].latest]
        /\ hist' = [hist EXCEPT ![sid] = AfterBuild(@, r.ok, chunks)]
        /\ UNCHANGED <<cfg, sessions, wpc, rpc>>

Rebuild(sid, use_gemini, remote_ok, fault) ==
    LET r == rebuild_index(cfg, store[sid], use_gemini, remote_ok, fault)
    IN  /\ Ready
        /\ store' = [store EXCEPT ![sid] = r.files]
        /\ last' = [NoCall EXCEPT !.op = "rebuild", !.sid = sid,
                                  !.use_gemini = use_gemini, !.fault = fault,
                                  !.ok = r.ok, !.existed = AnyArtifact(store[sid]),
                                  !.prev = hist[sid].latest]
        /\ hist' = [hist EXCEPT ![sid] =
                      AfterBuild(@, r.ok, IF r.ok THEN JsonLoad(store[sid].raw.body)
                                                   ELSE <<>>)]
        /\ UNCHANGED <<cfg, sessions, wpc, rpc>>

Delete(sid) ==
    LET r == delete_session_index(store[sid])
    IN  /\ Ready
        /\ store' = [store EXCEPT ![sid] = r.files]
        /\ last' = [NoCall EXCEPT !.op = "delete", !.sid = sid,
                                  !.ok = r.ok, !.existed = AnyArtifact(store[sid]),
                                  !.prev = hist[sid].latest]
        /\ hist' = [hist EXCEPT ![sid] =
                      [latest |-> "deleted", chunks |-> <<>>, deleted |-> TRUE,
                       given |-> <<>>]]
        /\ UNCHANGED <<cfg, sessions, wpc, rpc>>

\* DocumentProcessor._save_session_data, as far as it writes chunks.json
SaveSessionData(sid, chunks) ==
    /\ Ready
    /\ store' = [store EXCEPT ![sid].dir = TRUE,
                              ![sid].raw = [st |-> "ok", body |-> JsonDump(chunks)]]
    /\ last' = [NoCall EXCEPT !.op = "save", !.sid = sid, !.chunks = chunks]
    /\ UNCHANGED <<cfg, sessions, hist, wpc, rpc>>

Load(sid) ==
    /\ Ready
    /\ last' = [NoCall EXCEPT !.op = "load", !.sid = sid,
                              !.loaded = load_index(Files(store, sid))]
    /\ UNCHANGED <<cfg, sessions, store, hist, wpc, rpc>>

\* The three ways the repository calls search for session sid with the user's
\* text q:
\*   "keyword"     search(q, session_id=sid, top_k=k)             tools.py
\*   "path"        search(q, f"sessions/{sid}_vectors", top_k=k)  api_server.py
\*   "positional"  search(sid, q, top_k=k)                        ui.py, test_kensho.py
SearchStyles == {"keyword", "path", "positional"}

SearchArgs(style, sid, q, k, use_gemini, remote_ok, qfault) ==
    [query |-> IF style = "positional" THEN sid ELSE q,
     vector_store_path |-> CASE style = "positional" -> q
                             [] style = "path" -> VectorStorePath(sid)
                             [] OTHER -> NoString,
     session_id |-> IF style = "keyword" THEN sid ELSE NoString,
     top_k |-> k, use_gemini |-> use_gemini, remote_ok |-> remote_ok,
     qfault |-> qfault]

SearchWith(st, a) ==
    search(cfg, st, a.query, a.vector_store_path, a.session_id, a.top_k,
           a.use_gemini, a.remote_ok, a.qfault)

Search(style, sid, q, k, use_gemini, remote_ok, qfault) ==
    LET a == SearchArgs(style, sid, q, k, use_gemini, remote_ok, qfault)
        r == SearchWith(store, a)
    IN  /\ Ready
        /\ last' = [NoCall EXCEPT !.op = "search", !.sid = sid, !.style = style,
                                  !.args = a, !.raised = r.raised,
                                  !.results = r.results]
        /\ UNCHANGED <<cfg, sessions, store, hist, wpc, rpc>>

\* create_embeddings(texts, use_gemini); fail_at: the request of the remote loop
\* that raises, 0 when every request is answered
Embed(texts, use_gemini, fail_at) ==
    /\ Ready
    /\ last' = [NoCall EXCEPT !.op = "embed", !.texts = texts,
                              !.use_gemini = use_gemini, !.fail_at = fail_at,
                              !.emb = create_embeddings(cfg, texts, use_gemini, fail_at = 0)]
    /\ UNCHANGED <<cfg, sessions, store, hist, wpc, rpc>>

\* upload_pdf / upload_text / upload_youtube of the API server, as far as the
\* vector store goes: create_index(chunks, f"sessions/{sid}_vectors")
CreateIndex(sid, chunks, fault) ==
    LET r == create_index(cfg, store, chunks, VectorStorePath(sid), fault)
    IN  /\ Ready
        /\ r.session_id \in DOMAIN store
        /\ store' = [store EXCEPT ![r.session_id] = r.files]
        /\ last' = [NoCall EXCEPT !.op = "create", !.sid = sid,
                                  !.chunks = chunks, !.fault = fault, !.ok = r.ok,
                                  !.existed = AnyArtifact(store[r.session_id]),
                                  !.prev = hist[r.session_id].latest]
        /\ hist' = [hist EXCEPT ![r.session_id] = AfterBuild(@, r.ok, chunks)]
        /\ UNCHANGED <<cfg, sessions, wpc, rpc>>

\* the API server's get_all_chunks(session['vector_store_path'])
GetAllChunks(sid) ==
    /\ Ready
    /\ last' = [NoCall EXCEPT !.op = "get_all_chunks", !.sid = sid,
                              !.chunks = get_all_chunks(store, VectorStorePath(sid))]
    /\ UNCHANGED <<cfg, sessions, store, hist, wpc, rpc>>

\* the agent's tool call retrieve_session_docs(query, session_id)
Retrieve(sid, q, qfault) ==
    /\ Ready
    /\ last' = [NoCall EXCEPT !.op = "retrieve", !.sid = sid,
                              !.args = SearchArgs("keyword", sid, q, SemanticTopK,
                                                  FALSE, FALSE, qfault),
                              !.retrieved = retrieve_session_docs(cfg, store, q, sid, qfault)]
    /\ UNCHANGED <<cfg, sessions, store, hist, wpc, rpc>>

(***************************************************************************)
(* SpecStore: the calls that write, delete and load one session's files.   *)
(***************************************************************************)
NextStore ==
    \/ \E chunks \in ChunkLists, g \in BOOLEAN, rok \in BOOLEAN, fault \in BuildFaults :
          Build(Sid1, chunks, g, rok, fault)
    \/ \E g \in BOOLEAN, rok \in BOOLEAN, fault \in BuildFaults :
          Rebuild(Sid1, g, rok, fault)
    \/ Delete(Sid1)
    \/ \E chunks \in ChunkLists : SaveSessionData(Sid1, chunks)
    \/ Load(Sid1)
    \/ Return

SpecStore == Init /\ [][NextStore]_vars

(***************************************************************************)
(* SpecSearch: building, deleting and searching one session.               *)
(***************************************************************************)
NextSearch ==
    \/ \E chunks \in ChunkLists, g \in BOOLEAN, rok \in BOOLEAN, fault \in BuildFaults :
          Build(Sid1, chunks, g, rok, fault)
    \/ Delete(Sid1)
    \/ \E style \in SearchStyles, q \in Queries, k \in 1..MaxTopK,
          g \in BOOLEAN, rok \in BOOLEAN, qfault \in BOOLEAN :
          Search(style, Sid1, q, k, g, rok, qfault)
    \/ Return

SpecSearch == Init /\ [][NextSearch]_vars

(***************************************************************************)
(* SpecRetrieve: a session built by its id and asked through the agent's   *)
(* tool, next to a session a client of the API named "vector_index.faiss". *)
(***************************************************************************)
NextRetrieve ==
    \/ \E chunks \in NoteLists, fault \in BuildFaults :
          Build(Sid1, chunks, FALSE, FALSE, fault)
    \/ \E chunks \in NoteLists : CreateIndex(SidFaiss, chunks, "none")
    \/ Delete(Sid1)
    \/ \E q \in NoteQueries, qfault \in BOOLEAN : Retrieve(Sid1, q, qfault)
    \/ Return

SpecRetrieve == Init /\ [][NextRetrieve]_vars

(***************************************************************************)
(* SpecEmbed: create_embeddings on batches of texts.                       *)
(***************************************************************************)
TextBatches ==
    UNION {[1..n -> {<<"Cats">>, <<"Dogs">>, <<"Birds">>}] : n \in 0..MaxChunks}

NextEmbed ==
    \/ \E texts \in TextBatches, use_gemini \in BOOLEAN :
          \E fail_at \in 0..Len(texts) : Embed(texts, use_gemini, fail_at)
    \/ Return

SpecEmbed == Init /\ [][NextEmbed]_vars

(***************************************************************************)
(* SpecIso: two sessions whose ids a client chose, "s1" and "s1_vectors",  *)
(* written and read by session id and through the path-based entry points. *)
(***************************************************************************)
IsoSessions == {Sid1, SidVectors}

\* the chunk lists the two sessions upload
Uploads(sid) == IF sid = Sid1 THEN {Document(1), Document(MaxChunks)} ELSE {Notes(2)}

NextIso ==
    \/ \E sid \in IsoSessions : \E chunks \in Uploads(sid), fault \in {"none", "info_open"} :
          Build(sid, chunks, FALSE, FALSE, fault)
    \/ \E sid \in IsoSessions : \E chunks \in Uploads(sid) : CreateIndex(sid, chunks, "none")
    \/ \E sid \in IsoSessions : \E chunks \in Uploads(sid) : SaveSessionData(sid, chunks)
    \/ \E sid \in IsoSessions : Rebuild(sid, FALSE, FALSE, "none")
    \/ \E sid \in IsoSessions : Delete(sid)
    \/ \E sid \in IsoSessions, q \in Queries :
          Search("path", sid, q, MaxTopK, FALSE, FALSE, FALSE)
    \/ \E sid \in IsoSessions : GetAllChunks(sid)
    \/ Return

SpecIso == Init /\ [][NextIso]_vars

(***************************************************************************)
(* SpecChunk: the chunker on texts of up to MaxText characters.            *)
(***************************************************************************)
MaxText == 5       \* longest text of plain characters handed to the chunker

Alphabet == {"a", " ", ".", "\n"}

PlainTexts == UNION {[1..n -> Alphabet] : n \in 0..MaxText}

\* texts that bear markers: a page, a page after a timestamp, a marker that the
\* window cuts
MarkedTexts ==
    {<<"[source: page ", "1", "2", "]">>,
     <<"a", " ", "[timestamp: ", "0", "1", ":", "2", "2", "]", " ", "[source: page ", "3", "]">>,
     <<"[source: page ", "3", "]", " ", "[source: page ", "4", "]", "a">>}

InputTexts == PlainTexts \cup MarkedTexts

ChunkText(text, doc_type, source) ==
    /\ Ready
    /\ last' = [NoCall EXCEPT !.op = "chunk", !.texts = <<text>>,
                   !.chunks = _chunk_text_with_metadata(text, doc_type, source)]
    /\ UNCHANGED <<cfg, sessions, store, hist, wpc, rpc>>

ProcessText(text, source_name) ==
    /\ Ready
    /\ last' = [NoCall EXCEPT !.op = "process_text", !.texts = <<text>>,
                   !.args = [NoArgs EXCEPT !.vector_store_path = source_name],
                   !.processed = process_text(text, source_name)]
    /\ UNCHANGED <<cfg, sessions, store, hist, wpc, rpc>>

NextChunk ==
    \/ \E text \in InputTexts : ChunkText(text, "pdf", <<"a.pdf">>)
    \/ \E text \in InputTexts : ProcessText(text, <<"test_document">>)
    \/ Return

SpecChunk == Init /\ [][NextChunk]_vars

(***************************************************************************)
(* SpecAssist: the assistant's helpers on pools of chunks and on answer    *)
(* texts.                                                                  *)
(***************************************************************************)
MaxPool == 3       \* longest pool of chunks handed to the assistant

\* scores search can give (a padded slot's score is below zero, an inner
\* product of unnormalized vectors can exceed one) and a chunk without score
ScoreValues ==
    {Missing, PyFloat(-200), PyFloat(0), PyFloat(333), PyFloat(500), PyFloat(1500)}

\* scores no code of the repository writes: None and a string
OddScores == {PyNone, PyStr(<<"high">>)}

PoolsOver(scores, longest) ==
    UNION {{[i \in 1..n |-> Scored(Document(n)[i], f[i])] : f \in [1..n -> scores]} :
            n \in 0..longest}

ScoredPools == PoolsOver(ScoreValues, MaxPool)
OddPools == PoolsOver({PyFloat(500)} \cup OddScores, MaxPool - 1)

\* chunks of three sources: two pages of a PDF, a text, and a transcript that
\* bears the PDF's name
SourceChunks ==
    {Scored(Chunk(0, <<"Cats">>, "pdf", <<"a.pdf">>, {<<"page", PyInt(1)>>}, 0, 2), Missing),
     Scored(Chunk(1, <<"Dogs">>, "pdf", <<"a.pdf">>, {<<"page", PyInt(2)>>}, 1, 2), Missing),
     Scored(Chunk(0, <<"Birds">>, "text", <<"text_input">>, {}, 0, 1), Missing),
     Scored(Chunk(2, <<"Fish">>, "youtube", <<"a.pdf">>,
                  {<<"timestamp", PyStr(<<"01:22">>)>>}, 2, 3), Missing)}

SourcePools == UNION {[1..n -> SourceChunks] : n \in 0..MaxPool}

\* message.content of the model's reply: a text, or None
Answers ==
    {PyNone,
     PyStr(<<>>),
     PyStr(<<"See", "[source: page ", "3", "]", "and",
             "[timestamp: ", "0", "1", ":", "2", "2", "]">>),
     PyStr(<<"[source: page ", "1", "2", "]", "[source: page ", "1", "2", "]">>),
     PyStr(<<"[source: page ", "]", "[timestamp: ", "1", ":", "2", "2", "]">>)}

SelectDiverse(pool, num_items) ==
    /\ Ready
    /\ last' = [NoCall EXCEPT !.op = "select",
                   !.ai = [NoAssist EXCEPT !.pool = pool, !.num_items = num_items,
                              !.chunks = _select_diverse_chunks(pool, num_items)]]
    /\ UNCHANGED <<cfg, sessions, store, hist, wpc, rpc>>

Confidence(pool) ==
    /\ Ready
    /\ LET r == _calculate_confidence(pool)
       IN  last' = [NoCall EXCEPT !.op = "confidence",
                       !.ai = [NoAssist EXCEPT !.pool = pool, !.raised = r.raised,
                                  !.value = r.value]]
    /\ UNCHANGED <<cfg, sessions, store, hist, wpc, rpc>>

Sources(pool) ==
    /\ Ready
    /\ last' = [NoCall EXCEPT !.op = "sources",
                   !.ai = [NoAssist EXCEPT !.pool = pool,
                              !.sources = _extract_sources_from_chunks(pool)]]
    /\ UNCHANGED <<cfg, sessions, store, hist, wpc, rpc>>

Citations(answer) ==
    /\ Ready
    /\ LET r == _extract_citations_from_answer(answer)
       IN  last' = [NoCall EXCEPT !.op = "citations",
                       !.ai = [NoAssist EXCEPT !.answer = answer, !.raised = r.raised,
                                  !.citations = r.citations]]
    /\ UNCHANGED <<cfg, sessions, store, hist, wpc, rpc>>

Answer(pool, answer) ==
    /\ Ready
    /\ last' = [NoCall EXCEPT !.op = "answer",
                   !.ai = [NoAssist EXCEPT !.pool = pool, !.answer = answer,
                              !.reply = answer_question(pool, answer)]]
    /\ UNCHANGED <<cfg, sessions, store, hist, wpc, rpc>>

NextAssist ==
    \/ \E pool \in ScoredPools, num_items \in 0..(MaxPool + 1) :
          SelectDiverse(pool, num_items)
    \/ \E pool \in ScoredPools \cup OddPools : Confidence(pool)
    \/ \E pool \in SourcePools : Sources(pool)
    \/ \E answer \in Answers : Citations(answer)
    \/ \E pool \in OddPools, answer \in Answers : Answer(pool, answer)
    \/ Return

SpecAssist == Init /\ [][NextAssist]_vars

(***************************************************************************)
(* SpecUpload: the API server's uploads (api_server.py) into one session.  *)
(***************************************************************************)
MaxDocs == 2       \* most documents uploaded into a session

\* get_session(session_id): the session, filed first when it is new
get_session(ss, session_id) ==
    IF ss[session_id].known THEN ss
    ELSE [ss EXCEPT ![session_id] = [NoSession EXCEPT !.known = TRUE]]

\* document_info; filename and pages are the PDF's keys, length is the text's
DocumentInfo(type, filename, pages, length, chunks, vector_store_path) ==
    [type |-> type, filename |-> filename, pages |-> pages, length |-> length,
     chunks |-> chunks, vector_store_path |-> vector_store_path]

\* from create_index to the return of an upload: the value create_index returns
\* is dropped, the document is appended and the path is set whatever it was
StoreAndRecord(c, st, ss, session_id, chunks, info, fault) ==
    LET vector_store_path == VectorStorePath(session_id)
        r == create_index(c, st, chunks, vector_store_path, fault)
        listed == get_session(ss, session_id)
    IN  [built |-> r.ok, target |-> r.session_id, chunks |-> chunks,
         store |-> [st EXCEPT ![r.session_id] = r.files],
         sessions |-> [listed EXCEPT
                          ![session_id].documents = Append(@, info),
                          ![session_id].vector_store_path = vector_store_path]]

\* upload_text(input_data)
upload_text(c, st, ss, session_id, text, fault) ==
    LET chunks == process_text(text, <<"text_input">>).chunks
        document_info == DocumentInfo("text", NoString, 0, Len(text), Len(chunks),
                                      VectorStorePath(session_id))
    IN  StoreAndRecord(c, st, ss, session_id, chunks, document_info, fault)

\* upload_pdf(file, session_id) from the text process_pdf extracted on; the
\* chunks' source is the path of the temporary file
upload_pdf(c, st, ss, session_id, filename, full_text, fault) ==
    LET chunks == _chunk_text_with_metadata(full_text, "pdf", <<"tmp.pdf">>)
        page_count == Cardinality(PageMatches(full_text))
        document_info == DocumentInfo("pdf", filename, page_count, 0, Len(chunks),
                                      VectorStorePath(session_id))
    IN  StoreAndRecord(c, st, ss, session_id, chunks, document_info, fault)

\* what an upload leaves: the files, the sessions, and the call's record
Uploaded(op, sid, text, fault, r) ==
    /\ r.target \in DOMAIN store
    /\ store' = r.store
    /\ sessions' = r.sessions
    /\ last' = [NoCall EXCEPT !.op = op, !.sid = sid, !.texts = <<text>>,
                   !.chunks = r.chunks, !.fault = fault, !.ok = r.built,
                   !.existed = AnyArtifact(store[r.target]),
                   !.prev = hist[r.target].latest]
    /\ hist' = [hist EXCEPT ![r.target] = AfterBuild(@, r.built, r.chunks)]
    /\ UNCHANGED <<cfg, wpc, rpc>>

UploadText(sid, text, fault) ==
    /\ Ready
    /\ Len(sessions[sid].documents) < MaxDocs
    /\ Uploaded("upload_text", sid, text, fault,
                upload_text(cfg, store, sessions, sid, text, fault))

UploadPdf(sid, full_text, fault) ==
    /\ Ready
    /\ Len(sessions[sid].documents) < MaxDocs
    /\ Uploaded("upload_pdf", sid, full_text, fault,
                upload_pdf(cfg, store, sessions, sid, <<"a.pdf">>, full_text, fault))

\* texts of one chunk, of two chunks and of none
UploadTexts == {<<"a">>, <<"a", " ", "a", " ", "a">>, <<" ">>}

\* what process_pdf makes of one page and of two
PdfTexts ==
    {<<"\n", "[source: page ", "1", "]", "\n", "a", "\n">>,
     <<"\n", "[source: page ", "1", "]", "\n", "a", "\n",
       "\n", "[source: page ", "2", "]", "\n", "a", "\n">>}

NextUpload ==
    \/ \E text \in UploadTexts, fault \in {"none", "before_write"} :
          UploadText(Sid1, text, fault)
    \/ \E full_text \in PdfTexts, fault \in {"none", "before_write"} :
          UploadPdf(Sid1, full_text, fault)
    \/ GetAllChunks(Sid1)
    \/ Return

SpecUpload == Init /\ [][NextUpload]_vars

(***************************************************************************)
(* SpecConc: one process inside build_index or rebuild_index of a session  *)
(* and one inside load_index of the same session, a step per file access.  *)
(* Both use the default embedding path (use_gemini = False).               *)
(***************************************************************************)
\* the three artifacts of a session, which load_index reads
Artifacts(f) == [f EXCEPT !.raw = AbsentJson]

BuiltFiles(f, chunks) ==
    build_index(cfg, f, chunks, FALSE, FALSE, "none").files

Reading == rpc # Idle /\ rpc.pc # "done"

\* the complete versions of the session a running load can meet: the reader
\* learns of the version a writer that starts meanwhile is going to install
Meet(version) ==
    IF Reading THEN [rpc EXCEPT !.seen = @ \cup {Artifacts(version)}] ELSE rpc

\* build_index up to its first write: the embeddings are made and added
WStartBuild(sid, chunks) ==
    /\ wpc = Idle
    /\ BatchOk(EmbeddingDim, create_embeddings(cfg, Texts(chunks), FALSE, FALSE).rows)
    /\ wpc' = [pc |-> "write_index", sid |-> sid, chunks |-> chunks,
               before |-> store[sid], after |-> BuiltFiles(store[sid], chunks)]
    /\ rpc' = Meet(BuiltFiles(store[sid], chunks))
    /\ hist' = [hist EXCEPT ![sid] = AfterBuild(@, FALSE, <<>>)]
    /\ store' = [store EXCEPT ![sid].dir = TRUE]           \* os.makedirs
    /\ UNCHANGED <<cfg, sessions, last>>

\* rebuild_index up to its call of delete_session_index: chunks.json is read
WStartRebuild(sid) ==
    /\ wpc = Idle
    /\ store[sid].raw.st = "ok"
    /\ LET chunks == JsonLoad(store[sid].raw.body)
       IN  /\ BatchOk(EmbeddingDim, create_embeddings(cfg, Texts(chunks), FALSE, FALSE).rows)
           /\ wpc' = [pc |-> "remove_index", sid |-> sid, chunks |-> chunks,
                      before |-> store[sid], after |-> BuiltFiles(store[sid], chunks)]
           /\ rpc' = Meet(BuiltFiles(store[sid], chunks))
    /\ hist' = [hist EXCEPT ![sid] = AfterBuild(@, FALSE, <<>>)]
    /\ UNCHANGED <<cfg, sessions, store, last>>

\* delete_session_index: os.remove of one file after the other
WRemove ==
    /\ wpc.pc \in {"remove_index", "remove_meta", "remove_info"}
    /\ store' = [store EXCEPT ![wpc.sid] =
                    CASE wpc.pc = "remove_index" -> [@ EXCEPT !.index = AbsentIndex]
                      [] wpc.pc = "remove_meta" -> [@ EXCEPT !.meta = AbsentJson]
                      [] OTHER -> [@ EXCEPT !.info = AbsentInfo]]
    /\ wpc' = [wpc EXCEPT !.pc = CASE wpc.pc = "remove_index" -> "remove_meta"
                                   [] wpc.pc = "remove_meta" -> "remove_info"
                                   [] OTHER -> "write_index"]
    /\ UNCHANGED <<cfg, sessions, last, hist, rpc>>

\* faiss.write_index
WWriteIndex ==
    /\ wpc.pc = "write_index"
    /\ store' = [store EXCEPT ![wpc.sid].index = wpc.after.index]
    /\ wpc' = [wpc EXCEPT !.pc = "open_meta"]
    /\ UNCHANGED <<cfg, sessions, last, hist, rpc>>

\* open(metadata_path, "w") truncates the file; json.dump and the close that
\* ends the with block fill it
WOpenMeta ==
    /\ wpc.pc = "open_meta"
    /\ store' = [store EXCEPT ![wpc.sid].meta = CorruptJson]
    /\ wpc' = [wpc EXCEPT !.pc = "dump_meta"]
    /\ UNCHANGED <<cfg, sessions, last, hist, rpc>>

WDumpMeta ==
    /\ wpc.pc = "dump_meta"
    /\ store' = [store EXCEPT ![wpc.sid].meta = MetaFile(wpc.chunks)]
    /\ wpc' = [wpc EXCEPT !.pc = "open_info"]
    /\ UNCHANGED <<cfg, sessions, last, hist, rpc>>

WOpenInfo ==
    /\ wpc.pc = "open_info"
    /\ store' = [store EXCEPT ![wpc.sid].info = CorruptInfo]
    /\ wpc' = [wpc EXCEPT !.pc = "dump_info"]
    /\ UNCHANGED <<cfg, sessions, last, hist, rpc>>

\* the last write; build_index returns True
WDumpInfo ==
    /\ wpc.pc = "dump_info"
    /\ store' = [store EXCEPT ![wpc.sid].info = InfoFile(wpc.chunks, FALSE)]
    /\ wpc' = Idle
    /\ hist' = [hist EXCEPT ![wpc.sid] = AfterBuild(@, TRUE, wpc.chunks)]
    /\ UNCHANGED <<cfg, sessions, last, rpc>>

LoadReturns(sid, loaded) ==
    last' = [NoCall EXCEPT !.op = "load", !.sid = sid, !.style = "concurrent",
                           !.loaded = loaded]

\* load_index up to os.path.exists(index_path)
RStart(sid) ==
    LET seen == IF wpc = Idle THEN {Artifacts(store[sid])}
                ELSE {Artifacts(wpc.before), Artifacts(wpc.after)}
    IN  /\ rpc = Idle /\ last = NoCall
        /\ IF store[sid].index.st = "absent"
           THEN /\ LoadReturns(sid, NoneLoaded)
                /\ rpc' = [pc |-> "done", sid |-> sid, index |-> AbsentIndex,
                           chunks |-> <<>>, seen |-> seen]
           ELSE /\ rpc' = [pc |-> "read_index", sid |-> sid, index |-> AbsentIndex,
                           chunks |-> <<>>, seen |-> seen]
                /\ UNCHANGED last
        /\ UNCHANGED <<cfg, sessions, store, hist, wpc>>

\* faiss.read_index
RReadIndex ==
    /\ rpc # Idle /\ rpc.pc = "read_index"
    /\ IF store[rpc.sid].index.st # "ok"
       THEN /\ LoadReturns(rpc.sid, NoneLoaded)
            /\ rpc' = [rpc EXCEPT !.pc = "done"]
       ELSE /\ rpc' = [rpc EXCEPT !.pc = "read_meta", !.index = store[rpc.sid].index]
            /\ UNCHANGED last
    /\ UNCHANGED <<cfg, sessions, store, hist, wpc>>

\* json.load of chunk_metadata.json
RReadMeta ==
    /\ rpc # Idle /\ rpc.pc = "read_meta"
    /\ IF store[rpc.sid].meta.st # "ok"
       THEN /\ LoadReturns(rpc.sid, NoneLoaded)
            /\ rpc' = [rpc EXCEPT !.pc = "done"]
       ELSE /\ rpc' = [rpc EXCEPT !.pc = "read_info",
                                  !.chunks = JsonLoad(store[rpc.sid].meta.body)]
            /\ UNCHANGED last
    /\ UNCHANGED <<cfg, sessions, store, hist, wpc>>

\* json.load of embedding_info.json, and the return
RReadInfo ==
    /\ rpc # Idle /\ rpc.pc = "read_info"
    /\ IF store[rpc.sid].info.st # "ok"
       THEN LoadReturns(rpc.sid, NoneLoaded)
       ELSE LoadReturns(rpc.sid, [kind |-> "data", index |-> rpc.index,
                                  chunks |-> rpc.chunks, info |-> store[rpc.sid].info])
    /\ rpc' = [rpc EXCEPT !.pc = "done"]
    /\ UNCHANGED <<cfg, sessions, store, hist, wpc>>

\* the caller takes the result of the load, or of the save
RReturn ==
    /\ last # NoCall
    /\ last' = NoCall
    /\ rpc' = Idle
    /\ UNCHANGED <<cfg, sessions, store, hist, wpc>>

NextConc ==
    \/ \E chunks \in ChunkLists : SaveSessionData(Sid1, chunks)
    \/ \E chunks \in ChunkLists : WStartBuild(Sid1, chunks)
    \/ WStartRebuild(Sid1)
    \/ WRemove
    \/ WWriteIndex
    \/ WOpenMeta
    \/ WDumpMeta
    \/ WOpenInfo
    \/ WDumpInfo
    \/ RStart(Sid1)
    \/ RReadIndex
    \/ RReadMeta
    \/ RReadInfo
    \/ RReturn

SpecConc == Init /\ [][NextConc]_vars

(***************************************************************************)
(* The claims.                                                             *)
(***************************************************************************)
VectorCount(index) == Len(index.vecs)

\* the (text, type, source, source_info) of a chunk
Content(c) == <<c.text, c.type, c.source, c.source_info>>

\* C1 (violated by the code): in every reachable state of a session's storage, also after a
\* build or rebuild that failed part-way through its writes, an index and a chunk
\* metadata array that are both on disk have the same number of entries.
C1_VectorCountEqualsMetadataCount ==
    \A s \in SessionIds :
        (store[s].index.st = "ok" /\ store[s].meta.st = "ok")
            => VectorCount(store[s].index) = Len(store[s].meta.body)

\* C2 (violated by the code): a load that runs while a build or rebuild of the same session
\* is between its file writes and returns data returns the complete old or the
\* complete new version of the session, and never an index whose vector count
\* differs from the number of chunks it returns.
C2_ConcurrentLoadSeesOldOrNew ==
    (last.op = "load" /\ last.style = "concurrent" /\ last.loaded.kind = "data") =>
        /\ last.loaded \in {load_index(v) : v \in rpc.seen}
        /\ VectorCount(last.loaded.index) = Len(last.loaded.chunks)

\* C3 (violated by the code): load never returns a triple whose index holds a number of
\* vectors different from the number of chunks returned with it.
C3_LoadNeverReturnsMisaligned ==
    (last.op = "load" /\ last.loaded.kind = "data")
        => VectorCount(last.loaded.index) = Len(last.loaded.chunks)

\* a session whose index is on disk while metadata or provenance are missing,
\* unreadable or of another count
Corrupted(f) ==
    /\ Exists(f.index)
    /\ \/ f.index.st # "ok" \/ f.meta.st # "ok" \/ f.info.st # "ok"
       \/ VectorCount(f.index) # Len(f.meta.body)
       \/ VectorCount(f.index) # f.info.chunk_count

\* C4 (violated by the code): what load returns for a session with corrupt artifacts differs
\* from what it returns for a session that has no index at all.
C4_CorruptionDistinctFromNotFound ==
    (last.op = "load" /\ Corrupted(store[last.sid]))
        => last.loaded # load_index(EmptySession)

\* C5: whenever build returns success, the session's index, metadata and
\* provenance all exist, the index holds len(chunks) vectors, the metadata
\* len(chunks) entries and the provenance records chunk_count = len(chunks).
C5_SuccessfulBuildArtifactsAgree ==
    (last.op = "build" /\ last.ok) =>
        LET f == store[last.sid]
            n == Len(last.chunks)
        IN  /\ f.index.st = "ok" /\ VectorCount(f.index) = n
            /\ f.meta.st = "ok" /\ Len(f.meta.body) = n
            /\ f.info.st = "ok" /\ f.info.chunk_count = n

C5_Witness ==
    /\ last.op = "build" /\ last.ok /\ last.existed
    /\ Len(last.chunks) >= 2
    /\ last.prev = "failed"

\* C6: a load that follows a successful build of the session, with no build,
\* rebuild or delete on the session in between, returns a chunk list of the same
\* length and order as the list built, equal to it in text, type, source and
\* source_info.
C6_MetadataRoundTrip ==
    (last.op = "load" /\ hist[last.sid].latest = "built") =>
        LET built == hist[last.sid].chunks
            got == last.loaded.chunks
        IN  /\ last.loaded.kind = "data"
            /\ Len(got) = Len(built)
            /\ \A i \in 1..Len(built) : Content(got[i]) = Content(built[i])

C6_Witness ==
    /\ last.op = "load" /\ hist[last.sid].latest = "built"
    /\ Len(hist[last.sid].chunks) >= 2
    /\ \E i \in 1..Len(last.loaded.chunks) : last.loaded.chunks[i].source_info # {}

\* the searches that address session s by its id or by its path
SearchesOf(s) ==
    {SearchArgs(style, s, q, k, g, rok, qf) :
        style \in {"keyword", "path"}, q \in Queries, k \in 1..MaxTopK,
        g \in BOOLEAN, rok \in BOOLEAN, qf \in BOOLEAN}

C8_SearchNeverRaises ==
    last.op = "search" =>
        LET a == last.args
            target == SearchSession(a.vector_store_path, a.session_id)
            body == SearchBody(cfg, store, a.query, a.vector_store_path, a.session_id,
                               a.top_k, a.use_gemini, a.remote_ok, a.qfault)
        IN  /\ ~last.raised
            /\ (~Exists(Files(store, target).index) \/ body.exc) => last.results = <<>>

C8_Witness ==
    /\ last.op = "search"
    /\ load_index(Files(store, last.sid)).kind = "data"
    /\ SearchBody(cfg, store, last.args.query, last.args.vector_store_path,
                  last.args.session_id, last.args.top_k, last.args.use_gemini,
                  last.args.remote_ok, last.args.qfault).exc

\* C9 (violated by the code): after build_index(S, chunks) succeeded with a non-empty chunk
\* list, search(S, q, top_k=1), the session id first and the query second as the
\* test and the UI chat handler call it, returns exactly one result, a chunk of
\* session S with rank 1.
C9_PositionalSearchReturnsOne ==
    (/\ last.op = "search" /\ last.style = "positional"
     /\ last.args.top_k = 1 /\ ~last.args.use_gemini /\ ~last.args.qfault
     /\ hist[last.sid].latest = "built"
     /\ Len(hist[last.sid].chunks) >= 1)
    => /\ Len(last.results) = 1
       /\ last.results[1].rank = 1
       /\ \E i \in 1..Len(hist[last.sid].chunks) :
             last.results[1].chunk = hist[last.sid].chunks[i]

\* C10: in every search result list, consecutive results have non-increasing
\* similarity_score and strictly increasing rank.
C10_ScoresDescendRanksAscend ==
    last.op = "search" =>
        \A i \in 1..(Len(last.results) - 1) :
            /\ last.results[i].similarity_score >= last.results[i + 1].similarity_score
            /\ last.results[i].rank < last.results[i + 1].rank

C10_Witness ==
    /\ last.op = "search"
    /\ Len(last.results) >= 2
    /\ last.results[1].similarity_score > last.results[2].similarity_score
    /\ last.results[1].chunk # last.results[2].chunk

\* C11 (violated by the code): the rank of every search result is its 1-based
\* position in the returned list, so a search that returns k results gives them
\* the ranks 1..k, also when a candidate the index returned was skipped.
C11_RanksArePositions ==
    last.op = "search" =>
        \A i \in 1..Len(last.results) : last.results[i].rank = i

\* C12: search returns at most top_k results.
C12_AtMostTopK ==
    last.op = "search" => Len(last.results) <= last.args.top_k

C12_Witness ==
    /\ last.op = "search"
    /\ Len(last.results) = last.args.top_k
    /\ VectorCount(store[last.sid].index) > last.args.top_k

\* the chunks on disk for session s, and the elements of a list
StoredChunks(s) == IF store[s].meta.st = "ok" THEN JsonLoad(store[s].meta.body) ELSE <<>>
Range(seq) == {seq[i] : i \in 1..Len(seq)}

\* C13 (violated by the code): when the semantic search of retrieve_session_docs
\* found nothing and the keyword fallback ran, the chunks it returns are stored
\* chunks of that session whose lower-cased text contains the lower-cased query,
\* at most five of them, in order of ascending text length, and a matching
\* stored chunk is left out only when five chunks no longer than it are returned.
C13_KeywordFallbackResult ==
    (last.op = "retrieve" /\ last.retrieved.fallback) =>
        LET res == last.retrieved.chunks
            stored == StoredChunks(last.sid)
            q == last.args.query
        IN  /\ \A i \in 1..Len(res) : res[i] \in Range(stored) /\ Matches(res[i], q)
            /\ Len(res) <= KeywordTopK
            /\ \A i \in 1..(Len(res) - 1) : Len(res[i].text) <= Len(res[i + 1].text)
            /\ \A c \in Range(stored) :
                  (Matches(c, q) /\ c \notin Range(res)) =>
                      /\ Len(res) = KeywordTopK
                      /\ \A i \in 1..Len(res) : Len(res[i].text) <= Len(c.text)

\* the semantic search retrieve_session_docs makes finds nothing
SemanticEmpty == SearchWith(store, last.args).results = <<>>

Owned(f) == <<f.index, f.meta, f.info>>

\* C15 (violated by the code): a build, rebuild or delete addressed to one
\* session, by its id or by the path sessions/<id>_vectors, leaves the index,
\* chunk metadata and provenance of every other session as they were, and a
\* search or get_all_chunks addressed to a session returns only chunks stored
\* for that session.
C15_SessionsAreIsolated ==
    [][ /\ last'.op \in {"build", "create", "rebuild", "delete"} =>
              \A s \in SessionIds \ {last'.sid} : Owned(store'[s]) = Owned(store[s])
        /\ last'.op = "search" =>
              \A i \in 1..Len(last'.results) :
                  last'.results[i].chunk \in Range(StoredChunks(last'.sid))
        /\ last'.op = "get_all_chunks" =>
              Range(last'.chunks) \subseteq Range(StoredChunks(last'.sid)) ]_vars

\* C16: when the remote path is requested (use_gemini with an API key) and a
\* request of the batch fails, create_embeddings returns the local model's
\* vectors, one for every input text, in the order of the texts.
C16_RemoteFailureFallsBack ==
    (last.op = "embed" /\ last.use_gemini /\ cfg.api_key /\ last.fail_at > 0) =>
        /\ last.emb.path = "local"
        /\ Len(last.emb.rows) = Len(last.texts)
        /\ \A i \in 1..Len(last.texts) : last.emb.rows[i] = LocalVector(last.texts[i])

C16_Witness ==
    /\ last.op = "embed" /\ last.use_gemini /\ cfg.api_key
    /\ Len(last.texts) >= 2 /\ last.fail_at = Len(last.texts)
    /\ last.emb.path = "local"

\* the vectors the embedding path gives for the texts, as the index stores them
IndexedBy(path, texts) ==
    NormalizeL2(IF path = "gemini" THEN _create_gemini_embeddings(cfg, texts, TRUE).rows
                ELSE _create_sentence_transformer_embeddings(texts).rows)

\* the session a search works on, and the path that embeds its query
SearchTarget == SearchSession(last.args.vector_store_path, last.args.session_id)
QueryPath ==
    create_embeddings(cfg, <<last.args.query>>, last.args.use_gemini,
                      last.args.remote_ok).path

\* C17 (violated by the code): a search that scores its query against the index
\* of a built session embeds the query with the embedding path that produced
\* the vectors of that index.
C17_QueryEmbeddedLikeIndex ==
    (/\ last.op = "search" /\ last.results # <<>>
     /\ SearchTarget \in SessionIds
     /\ hist[SearchTarget].latest = "built")
    => store[SearchTarget].index.vecs
          = IndexedBy(QueryPath, Texts(hist[SearchTarget].chunks))

\* no embedding path gives vectors for the build: the embedding call raises
EmbeddingUnavailable(call) == call.fault = "before_write"

\* C18: a build for which no embedding path produces vectors returns failure and
\* leaves the session's index, chunk metadata and provenance, present or absent,
\* exactly as they were before the call.
C18_FailedEmbeddingWritesNothing ==
    [][ (last'.op = "build" /\ EmbeddingUnavailable(last')) =>
            /\ ~last'.ok
            /\ Owned(store'[last'.sid]) = Owned(store[last'.sid]) ]_vars

C18_Witness ==
    /\ last.op = "build" /\ last.fault = "before_write" /\ last.chunks # <<>>
    /\ last.prev = "built"
    /\ load_index(store[last.sid]).kind = "data"

\* C19: a successful build of a session that was built before leaves exactly what
\* the second call was given: load returns the second call's chunks with the
\* vectors of their texts, nothing of the first call; and the same build made
\* once more (same chunks, same flag, same answer of the remote service) leaves
\* the session's files as they are after the first.
C19_BuildOverwritesIdempotent ==
    (last.op = "build" /\ last.ok) =>
        LET f == store[last.sid]
            loaded == load_index(f)
            emb == create_embeddings(cfg, Texts(last.chunks), last.use_gemini,
                                     last.remote_ok)
            again == build_index(cfg, f, last.chunks, last.use_gemini,
                                 last.remote_ok, "none")
        IN  /\ loaded.kind = "data"
            /\ loaded.chunks = last.chunks
            /\ loaded.index.vecs = NormalizeL2(emb.rows)
            /\ loaded.info.chunk_count = Len(last.chunks)
            /\ again.ok /\ again.files = f

C19_Witness ==
    /\ last.op = "build" /\ last.ok
    /\ last.prev = "built" /\ last.existed
    /\ Len(last.chunks) = 1

\* the identifier of the model behind an embedding path
ModelOf(path) == IF path = "gemini" THEN GeminiModelName ELSE LocalModelName

\* C20 (violated by the code): the provenance a successful build persists names
\* the model that produced the vectors it indexed, also when the remote path was
\* asked for and the vectors came from the local model.
C20_ProvenanceNamesActualModel ==
    (last.op = "build" /\ last.ok) =>
        store[last.sid].info.model
            = ModelOf(create_embeddings(cfg, Texts(last.chunks), last.use_gemini,
                                        last.remote_ok).path)

\* the chunks of a pool all bear a number as score, or none
Typed(pool) == \A i \in 1..Len(pool) : IsNumber(GetScore(pool[i]))
ScoreSum(pool) == SumTo([i \in 1..Len(pool) |-> GetScore(pool[i])], Len(pool))
Smaller(a, b) == IF a < b THEN a ELSE b

\* C21: selectDiverse(pool, k) returns at most min(k, len(pool)) chunks, each a
\* chunk of the pool; a pool of at most k chunks is returned unchanged, of a
\* larger pool the k chunks of highest score are returned, in descending order
\* of score.
C21_SelectDiverse ==
    last.op = "select" =>
        LET pool == last.ai.pool
            k == last.ai.num_items
            out == last.ai.chunks
            left == {c \in Range(pool) : c \notin Range(out)}
        IN  /\ Len(out) <= Smaller(k, Len(pool))
            /\ Range(out) \subseteq Range(pool)
            /\ Len(pool) <= k => out = pool
            /\ Len(pool) > k =>
                  /\ Len(out) = k
                  /\ \A i, j \in 1..Len(out) : i # j => out[i] # out[j]
                  /\ \A i \in 1..(Len(out) - 1) :
                        GetScore(out[i]).n >= GetScore(out[i + 1]).n
                  /\ \A c \in left : \A i \in 1..Len(out) :
                        GetScore(c).n <= GetScore(out[i]).n

\* a pool larger than the count asked whose first chunks are not the best ones
C21_Witness ==
    /\ last.op = "select"
    /\ last.ai.num_items >= 2
    /\ Len(last.ai.pool) > last.ai.num_items
    /\ last.ai.chunks # SubSeq(last.ai.pool, 1, last.ai.num_items)
    /\ \E i \in 1..Len(last.ai.pool) : last.ai.pool[i].similarity_score = Missing

\* C22 as stated: the confidence lies in [0, 1], is 0.0 for the empty list and
\* otherwise equals the mean of the scores clamped into [0, 1].
C22_ConfidenceIsClampedMean ==
    (last.op = "confidence" /\ Typed(last.ai.pool)) =>
        LET pool == last.ai.pool
            n == Len(pool)
            total == ScoreSum(pool)
            mean == IF total < 0 THEN 0 ELSE IF total > 1000 * n THEN 1000 * n ELSE total
        IN  /\ 0 <= last.ai.value /\ last.ai.value <= 100
            /\ n = 0 => last.ai.value = 0
            /\ n > 0 => last.ai.value * 10 * n = mean

\* C22 (amended): the confidence lies in [0, 1], is 0.0 for the empty list and
\* otherwise is the mean of the scores (a missing score counting as 0.0) clamped
\* into [0, 1] and rounded to two decimals: a number of hundredths at most half
\* a hundredth away from the clamped mean.
C22_ConfidenceIsRoundedClampedMean ==
    (last.op = "confidence" /\ Typed(last.ai.pool)) =>
        LET pool == last.ai.pool
            n == Len(pool)
            total == ScoreSum(pool)
            mean == IF total < 0 THEN 0 ELSE IF total > 1000 * n THEN 1000 * n ELSE total
            diff == last.ai.value * 10 * n - mean
        IN  /\ ~last.ai.raised
            /\ 0 <= last.ai.value /\ last.ai.value <= 100
            /\ n = 0 => last.ai.value = 0
            /\ n > 0 => (2 * diff <= 10 * n /\ -2 * diff <= 10 * n)

\* scores whose mean is above one, and is clamped
C22_Witness ==
    /\ last.op = "confidence"
    /\ Typed(last.ai.pool)
    /\ Len(last.ai.pool) >= 2
    /\ ScoreSum(last.ai.pool) > 1000 * Len(last.ai.pool)
    /\ last.ai.value = 100

\* C23 (violated by the code): confidence and citation extraction never raise,
\* whatever the scores of the chunks and whether or not there is an answer text.
C23_ExtractionNeverRaises ==
    last.op \in {"confidence", "citations"} => ~last.ai.raised

\* the (type, source) pair of a chunk
PairOf(chunk) == <<chunk.type, chunk.source>>

\* C24: extract_sources returns one descriptor for every distinct (type, source)
\* pair of the chunks, in the order the pairs first occur, and it is the
\* descriptor of the first chunk of that pair: its id as chunk_id, its type and
\* source and the entries of its source_info.
C24_OneSourcePerPair ==
    last.op = "sources" =>
        LET pool == last.ai.pool
            out == last.ai.sources
            first(i) == \A j \in 1..(i - 1) : PairOf(pool[j]) # PairOf(pool[i])
            firsts == SelectSeq([i \in 1..Len(pool) |-> i], first)
        IN  /\ Len(out) = Cardinality({PairOf(pool[i]) : i \in 1..Len(pool)})
            /\ Len(out) = Len(firsts)
            /\ \A r \in 1..Len(out) :
                  out[r] = {<<"chunk_id", PyInt(pool[firsts[r]].id)>>,
                            <<"type", PyStr(<<pool[firsts[r]].type>>)>>,
                            <<"source", PyStr(pool[firsts[r]].source)>>}
                           \cup pool[firsts[r]].source_info

\* a pool in which the second page of a source comes before its first page, and
\* another source between them
C24_Witness ==
    /\ last.op = "sources"
    /\ Len(last.ai.pool) = 3
    /\ Len(last.ai.sources) = 2
    /\ PairOf(last.ai.pool[1]) = PairOf(last.ai.pool[3])
    /\ last.ai.pool[1].id > last.ai.pool[3].id

\* C25: the N chunks of one chunking call have id and chunk_index 0..N-1 in
\* order and total_chunks N; the empty text gives no chunk, and no error.
C25_ChunkAlignment ==
    last.op = "chunk" =>
        /\ \A i \in 1..Len(last.chunks) :
              /\ last.chunks[i].id = i - 1
              /\ last.chunks[i].chunk_index = i - 1
              /\ last.chunks[i].total_chunks = Len(last.chunks)
              /\ last.chunks[i].chunk_index < last.chunks[i].total_chunks
        /\ last.texts = << <<>> >> => last.chunks = <<>>

\* a text longer than the window, split into chunks that overlap
C25_Witness ==
    /\ last.op = "chunk"
    /\ Len(last.chunks) >= 2
    /\ Len(last.chunks[1].text) = ChunkSize
    /\ last.chunks[2].text[1] = last.chunks[1].text[ChunkSize]
    /\ last.chunks[2].text # last.chunks[1].text

\* a text without a character that is not whitespace
Blank(text) == \A i \in 1..Len(text) : text[i] \in Whitespace

\* C26 as stated: process_text returns the text unchanged as full_text, and a
\* chunk list that is not empty when the text is not; a text that fits in one
\* window gives one chunk, whose text is the input, of type 'text' and of the
\* source name given.
C26_ProcessTextOneWindow ==
    last.op = "process_text" =>
        LET text == last.texts[1]
            out == last.processed
        IN  /\ out.full_text = text
            /\ text # <<>> => out.chunks # <<>>
            /\ (text # <<>> /\ Len(text) <= ChunkSize) =>
                  /\ Len(out.chunks) = 1
                  /\ out.chunks[1].text = text
                  /\ out.chunks[1].type = "text"
                  /\ out.chunks[1].source = last.args.vector_store_path

\* C26 (amended): process_text returns the text unchanged as full_text, and a
\* chunk list that is not empty when the text has a character that is not
\* whitespace; such a text that fits in one window gives one chunk, whose text
\* is the input without its leading and trailing whitespace, of type 'text' and
\* of the source name given.
C26_ProcessTextOneWindowStripped ==
    last.op = "process_text" =>
        LET text == last.texts[1]
            out == last.processed
        IN  /\ out.full_text = text
            /\ ~Blank(text) => out.chunks # <<>>
            /\ (~Blank(text) /\ Len(text) <= ChunkSize) =>
                  /\ Len(out.chunks) = 1
                  /\ out.chunks[1].text = Strip(text)
                  /\ out.chunks[1].type = "text"
                  /\ out.chunks[1].source = last.args.vector_store_path

\* a text of one window that begins with a blank and holds a separator
C26_Witness ==
    /\ last.op = "process_text"
    /\ Len(last.texts[1]) = ChunkSize
    /\ last.texts[1][1] = " "
    /\ last.texts[1][3] = " "
    /\ Len(last.processed.chunks) = 1
    /\ last.processed.full_text # last.processed.chunks[1].text
    /\ last.args.vector_store_path = <<"test_document">>

\* what the semantic search of the retrieve call returns
SemanticResults ==
    search(cfg, store, last.args.query, NoString, last.sid, SemanticTopK,
           FALSE, FALSE, last.args.qfault).results

\* C27: the keyword scan runs only when the semantic search returned no result;
\* when it returned a result, its results are the ones used, in their order, and
\* the keyword path is not taken.
C27_KeywordOnlyAfterEmptySemantic ==
    (last.op = "retrieve" /\ last.retrieved.kind # "no_session") =>
        /\ last.retrieved.fallback => SemanticResults = <<>>
        /\ SemanticResults # <<>> =>
              /\ ~last.retrieved.fallback
              /\ last.retrieved.kind = "context"
              /\ last.retrieved.chunks =
                    [i \in 1..Len(SemanticResults) |-> SemanticResults[i].chunk]

\* the semantic search found chunks although the keyword scan would have found
\* others
C27_Witness ==
    /\ last.op = "retrieve"
    /\ SemanticResults # <<>>
    /\ last.retrieved.kind = "context"
    /\ KeywordHits(get_all_chunks(store, <<"sessions", "/">> \o last.sid
                                          \o <<"/", "vector_index.faiss">>),
                   last.args.query) \notin {<<>>, last.retrieved.chunks}

\* the index and the chunks the search call works on
SearchedIndex ==
    load_index(Files(store, SearchSession(last.args.vector_store_path,
                                          last.args.session_id)))

\* C28 (violated by the code): every result of a search is a distinct chunk of
\* the session's metadata at a position the index returned: a candidate slot
\* left unfilled (position -1) gives no result, no chunk is returned twice, and
\* there are at most min(top_k, number of indexed chunks) results.
C28_ResultsAreDistinctStoredChunks ==
    (last.op = "search" /\ last.results # <<>>) =>
        /\ \A i \in 1..Len(last.results) :
              last.results[i].chunk \in Range(SearchedIndex.chunks)
        /\ \A i, j \in 1..Len(last.results) :
              i # j => last.results[i].chunk # last.results[j].chunk
        /\ Len(last.results) <= Smaller(last.args.top_k,
                                        VectorCount(SearchedIndex.index))

\* C29 (violated by the code): a rebuild that returns failure leaves the index
\* that could be loaded before it as it was: load still succeeds and returns the
\* same chunks.
C29_FailedRebuildKeepsIndex ==
    [][ (/\ last'.op = "rebuild" /\ ~last'.ok
         /\ load_index(store[last'.sid]).kind = "data") =>
            /\ load_index(store'[last'.sid]).kind = "data"
            /\ load_index(store'[last'.sid]).chunks = load_index(store[last'.sid]).chunks
      ]_vars

\* the sum of the chunk counts of a list of document descriptors
RECURSIVE SumChunks(_)
SumChunks(documents) ==
    IF documents = <<>> THEN 0 ELSE Head(documents).chunks + SumChunks(Tail(documents))

IsUpload(call) == call.op \in {"upload_text", "upload_pdf"}

\* C30 (violated by the code): after an upload that returned its document, the
\* index the session's vector_store_path names holds as many chunks as the
\* session's document descriptors count together, and the descriptor was
\* recorded for an index build that succeeded.
C30_IndexAgreesWithDocuments ==
    IsUpload(last) =>
        /\ Len(get_all_chunks(store, sessions[last.sid].vector_store_path))
              = SumChunks(sessions[last.sid].documents)
        /\ last.ok

====
